---- MODULE Spec2Model ----
(***************************************************************************)
(* State-machine model of the gameplay engine of the AI-narrated TRPG      *)
(* client: the turn orchestrator of GamePlayScreen.tsx (player actions,    *)
(* offered checks, dice acquisition, push-roll protocol, sanity loss and   *)
(* madness onset/decay) together with the dice-notation evaluator and the  *)
(* application's terminal states.                                          *)
(*                                                                         *)
(* Strings of the source that are parsed (dice notations, skill names) are *)
(* sequences of one-character strings; "<" and ">" stand for the skill     *)
(* brackets that handleSkillCheck strips.  Message texts and madness       *)
(* symptom descriptions are presentation and are not part of the state.    *)
(***************************************************************************)
EXTENDS Integers, Sequences, FiniteSets, TLC

VARIABLES
    gameState,             \* App: gameState
    characters,            \* GamePlayScreen: characters
    isLoading,             \* GamePlayScreen: isLoading
    pendingAction,         \* GamePlayScreen: pendingAction (KeeperResponse | null)
    modalAction,           \* GamePlayScreen: modalAction
    lastFailedSkillCheck,  \* GamePlayScreen: lastFailedSkillCheck
    diceRollRequest,       \* GamePlayScreen: diceRollRequest (with its onComplete closure)
    inFlight,              \* narrator requests sent and not yet answered
    turns,                 \* history: operator actions taken so far
    scenario,              \* App: scenario
    isScenarioOptionsModalOpen,  \* App: isScenarioOptionsModalOpen
    outlineRequest,        \* the pending call of generateScenarioOutline
    rewards,               \* App: rewards
    creation,              \* CharacterCreationScreen: the sheet being edited
    input,                 \* arguments of a function applied on its own
    output                 \* the value the function returned for them

vars == <<gameState, characters, isLoading, pendingAction, modalAction,
          lastFailedSkillCheck, diceRollRequest, inFlight, turns,
          scenario, isScenarioOptionsModalOpen, outlineRequest, rewards,
          creation, input, output>>

\* the state of App besides gameState and characters
appVars == <<scenario, isScenarioOptionsModalOpen, outlineRequest, rewards>>

-----------------------------------------------------------------------------
(* Bounds of the model *)

MaxTurns == 2        \* operator actions per session
MaxFullRoll == 6     \* a roll with more outcomes than this is sampled

\* the outcomes of a large roll (1d100) that the model draws
RollSample == {1, 5, 20, 45, 96, 100}

NULL == [kind |-> "null"]

Max(a, b) == IF a >= b THEN a ELSE b
Min(a, b) == IF a <= b THEN a ELSE b

-----------------------------------------------------------------------------
(* Text helpers: notations are sequences of one-character strings *)

Digits == {"0", "1", "2", "3", "4", "5", "6", "7", "8", "9"}

DigitVal(c) ==
    CASE c = "0" -> 0 [] c = "1" -> 1 [] c = "2" -> 2 [] c = "3" -> 3
      [] c = "4" -> 4 [] c = "5" -> 5 [] c = "6" -> 6 [] c = "7" -> 7
      [] c = "8" -> 8 [] c = "9" -> 9

IsDigit(c) == c \in Digits

IsSpace(c) == c = " "

\* String.prototype.toLowerCase, for the letters a notation can hold
ToLower(c) == IF c = "D" THEN "d" ELSE c

\* parseInt(text, 10) of a text that is a run of decimal digits
RECURSIVE ParseDigits(_)
ParseDigits(s) ==
    IF s = <<>> THEN 0
    ELSE 10 * ParseDigits(SubSeq(s, 1, Len(s) - 1)) + DigitVal(s[Len(s)])

\* String.prototype.trim
RECURSIVE TrimLeft(_)
TrimLeft(s) ==
    IF s # <<>> /\ IsSpace(s[1]) THEN TrimLeft(Tail(s)) ELSE s

RECURSIVE TrimRight(_)
TrimRight(s) ==
    IF s # <<>> /\ IsSpace(s[Len(s)]) THEN TrimRight(SubSeq(s, 1, Len(s) - 1)) ELSE s

Trim(s) == TrimRight(TrimLeft(s))

\* String.prototype.split('/')
RECURSIVE SplitSlash(_)
SplitSlash(s) ==
    IF \E i \in 1..Len(s) : s[i] = "/"
    THEN LET i == CHOOSE k \in 1..Len(s) : s[k] = "/" /\ \A j \in 1..(k - 1) : s[j] # "/"
         IN  <<SubSeq(s, 1, i - 1)>> \o SplitSlash(SubSeq(s, i + 1, Len(s)))
    ELSE <<s>>

\* the maximal run of digits of s that starts at position i
RECURSIVE DigitRunFrom(_, _)
DigitRunFrom(s, i) ==
    IF i <= Len(s) /\ IsDigit(s[i]) THEN <<s[i]>> \o DigitRunFrom(s, i + 1) ELSE <<>>

\* the maximal run of digits of s that ends at position i
RECURSIVE DigitRunTo(_, _)
DigitRunTo(s, i) ==
    IF i >= 1 /\ IsDigit(s[i]) THEN DigitRunTo(s, i - 1) \o <<s[i]>> ELSE <<>>

-----------------------------------------------------------------------------
(* utils/dice: parseAndRoll *)

\* notation.toLowerCase().replace(/\s+/g, '')
Sanitize(notation) ==
    SelectSeq([i \in 1..Len(notation) |-> ToLower(notation[i])], LAMBDA c : ~IsSpace(c))

\* sanitized.match(/(\d+)?d(\d+)([+-]\d+)?/): the leftmost match is at the
\* first "d" that is followed by a digit; the count is the digit run before
\* it, the sides the digit run after it, the modifier a sign and a digit run
\* directly after the sides.
DiceMatch(notation) ==
    LET s == Sanitize(notation)
        ds == {i \in 1..Len(s) : s[i] = "d" /\ i < Len(s) /\ IsDigit(s[i + 1])}
    IN  IF ds = {} THEN NULL
        ELSE LET p == CHOOSE i \in ds : \A j \in ds : i <= j
                 cnt == DigitRunTo(s, p - 1)
                 sid == DigitRunFrom(s, p + 1)
                 q == p + 1 + Len(sid)
                 hasMod == q < Len(s) /\ s[q] \in {"+", "-"} /\ IsDigit(s[q + 1])
                 modDigits == IF hasMod THEN DigitRunFrom(s, q + 1) ELSE <<>>
             IN  [kind |-> "dice",
                  numDice |-> IF cnt = <<>> THEN 1 ELSE ParseDigits(cnt),
                  numSides |-> ParseDigits(sid),
                  modifier |-> IF ~hasMod THEN 0
                               ELSE IF s[q] = "-" THEN 0 - ParseDigits(modDigits)
                               ELSE ParseDigits(modDigits)]

\* rollDie(sides) = floor(random * sides) + 1: any of 1..sides (1 when sides = 0)
rollDie(sides) == 1..Max(sides, 1)

\* the values parseAndRoll(notation) can return: the sum of numDice dice, each
\* drawn by rollDie, plus the modifier; 0 when the notation does not match
parseAndRoll(notation) ==
    LET m == DiceMatch(notation)
    IN  IF m = NULL THEN {0}
        ELSE {t + m.modifier : t \in (m.numDice)..(m.numDice * Max(m.numSides, 1))}

\* the results of DiceRollModal's parseAndRoll(notation) that the model draws
Rolls(notation) ==
    LET all == parseAndRoll(notation)
    IN  IF Cardinality(all) <= MaxFullRoll THEN all ELSE all \cap RollSample

-----------------------------------------------------------------------------
(* GamePlayScreen: isFixedValue / parseFixedOrRoll *)

\* /^\d+$/.test(notation.trim())
isFixedValue(notation) ==
    LET t == Trim(notation)
    IN  t # <<>> /\ \A i \in 1..Len(t) : IsDigit(t[i])

\* the fixed value, or -1 when the notation has to be rolled
parseFixedOrRoll(notation) ==
    IF isFixedValue(notation) THEN ParseDigits(Trim(notation)) ELSE 0 - 1

-----------------------------------------------------------------------------
(* GamePlayScreen: check resolution.  The source compares the integer roll *)
(* with value / 5 and value / 2 in real arithmetic: roll <= value / 5 is   *)
(* 5 * roll <= value.                                                      *)

\* the skill-check ladder with the Fumble rule missing its target < 50 part
skillCheckResult_FumbleAnyTarget(diceRoll, skillValue) ==
    IF diceRoll <= 1 THEN "Critical"
    ELSE IF 5 * diceRoll <= skillValue THEN "Extreme"
    ELSE IF 2 * diceRoll <= skillValue THEN "Hard"
    ELSE IF diceRoll <= skillValue THEN "Regular"
    ELSE IF diceRoll >= 100 THEN "Fumble00"
    ELSE IF diceRoll >= 96 THEN "Fumble"
    ELSE "Failure"

\* handleSkillCheck.onComplete: the tier of diceRoll against skillValue
skillCheckResult(diceRoll, skillValue) ==
    IF diceRoll <= 1 THEN "Critical"
    ELSE IF 5 * diceRoll <= skillValue THEN "Extreme"
    ELSE IF 2 * diceRoll <= skillValue THEN "Hard"
    ELSE IF diceRoll <= skillValue THEN "Regular"
    ELSE IF diceRoll >= 100 THEN "Fumble00"
    ELSE IF diceRoll >= 96 /\ skillValue < 50 THEN "Fumble"
    ELSE "Failure"

\* handleStatCheck.onComplete: the tier of diceRoll against targetValue
statCheckResult(diceRoll, targetValue) ==
    IF diceRoll <= 1 THEN "Critical"
    ELSE IF 5 * diceRoll <= targetValue THEN "Extreme"
    ELSE IF 2 * diceRoll <= targetValue THEN "Hard"
    ELSE IF diceRoll <= targetValue THEN "Regular"
    ELSE IF diceRoll >= 100 THEN "Fumble00"
    ELSE IF diceRoll >= 96 /\ targetValue < 50 THEN "Fumble"
    ELSE "Failure"

\* handlePushRoll.onComplete: the tier of diceRoll against value
pushRollResult(diceRoll, value) ==
    IF diceRoll <= 1 THEN "Critical"
    ELSE IF 5 * diceRoll <= value THEN "Extreme"
    ELSE IF 2 * diceRoll <= value THEN "Hard"
    ELSE IF diceRoll <= value THEN "Regular"
    ELSE IF diceRoll >= 100 THEN "Fumble00"
    ELSE IF diceRoll >= 96 /\ value < 50 THEN "Fumble"
    ELSE "Failure"

\* isSuccess with the Fumble tier left out of the failures
isSuccess_FumbleSucceeds(result) == result \notin {"Failure", "Fumble00"}

\* isSuccess = result !== Failure && result !== Fumble && result !== Fumble (00)
isSuccess(result) == result \notin {"Failure", "Fumble", "Fumble00"}

-----------------------------------------------------------------------------
(* GamePlayScreen: madness *)

\* Math.ceil(character.san.max * 0.2); the double product rounds up to the
\* same integer as the exact fifth for every maximum below 1000
indefiniteMadnessThreshold(character) == (character.san.max + 4) \div 5

\* Math.floor(Math.random() * 6) + 1
MadnessDurations == 1..6

\* checkForMadness asking for a loss above the fifth of the maximum
checkForMadness_AboveThreshold(character, sanLoss) ==
    IF sanLoss > indefiniteMadnessThreshold(character)
    THEN {[type |-> "indefinite"]}
    ELSE IF sanLoss >= 5
    THEN {[type |-> "temporary", duration |-> d] : d \in MadnessDurations}
    ELSE {[type |-> "null"]}

\* checkForMadness drawing the rounds of a temporary madness from 0 to 5
checkForMadness_ZeroBasedDuration(character, sanLoss) ==
    IF sanLoss >= indefiniteMadnessThreshold(character)
    THEN {[type |-> "indefinite"]}
    ELSE IF sanLoss >= 5
    THEN {[type |-> "temporary", duration |-> d - 1] : d \in MadnessDurations}
    ELSE {[type |-> "null"]}

\* checkForMadness(character, sanLoss): the results it can return (the
\* duration of a temporary madness is random)
checkForMadness(character, sanLoss) ==
    IF sanLoss >= indefiniteMadnessThreshold(character)
    THEN {[type |-> "indefinite"]}
    ELSE IF sanLoss >= 5
    THEN {[type |-> "temporary", duration |-> d] : d \in MadnessDurations}
    ELSE {[type |-> "null"]}

\* the updater spreading the previous madness record under the new one
applySanityResult_KeepsFields(c, newSan, madnessResult) ==
    [c EXCEPT !.san = [c.san EXCEPT !.current = newSan],
              !.madness = IF madnessResult.type = "null" THEN c.madness
                          ELSE IF "duration" \in DOMAIN madnessResult
                                  \/ "duration" \notin DOMAIN c.madness
                          THEN madnessResult
                          ELSE [type |-> madnessResult.type,
                                duration |-> c.madness.duration]]

\* the updater returning the changed fields without the rest of the character
applySanityResult_WithoutSpread(c, newSan, madnessResult) ==
    [san |-> [c.san EXCEPT !.current = newSan],
     madness |-> IF madnessResult.type # "null" THEN madnessResult ELSE c.madness]

\* the updater of updateCharacterState in the sanity handlers: the new SAN
\* and, when madnessResult has a type, a fresh madness record
applySanityResult(c, newSan, madnessResult) ==
    [c EXCEPT !.san = [c.san EXCEPT !.current = newSan],
              !.madness = IF madnessResult.type # "null" THEN madnessResult
                          ELSE c.madness]

\* the per-character step storing the exhausted duration instead of recovering
decrementCharacter_KeepsZero(character) ==
    IF /\ character.madness.type = "temporary"
       /\ "duration" \in DOMAIN character.madness
       /\ character.madness.duration > 0
    THEN [character EXCEPT !.madness =
             [character.madness EXCEPT !.duration = character.madness.duration - 1]]
    ELSE character

\* the per-character step of decrementMadnessDuration
decrementCharacter(character) ==
    IF /\ character.madness.type = "temporary"
       /\ "duration" \in DOMAIN character.madness
       /\ character.madness.duration > 0
    THEN LET newDuration == character.madness.duration - 1
         IN  IF newDuration <= 0
             THEN [character EXCEPT !.madness = [type |-> "null"]]
             ELSE [character EXCEPT !.madness = [character.madness EXCEPT !.duration = newDuration]]
    ELSE character

\* decrementMadnessDuration: setCharacters(prev => prev.map(...))
decrementMadnessDuration(chars) ==
    [id \in DOMAIN chars |-> decrementCharacter(chars[id])]

-----------------------------------------------------------------------------
(* The party and the narrator's replies the model draws from *)

CharacterIds == {"a", "b"}

D100 == <<"1", "d", "1", "0", "0">>

Spot == <<"Spot">>
Dodge == <<"Dodge">>

\* createNewCharacter's madness default
NoMadness == [type |-> "null", duration |-> 0]

\* a created character: SAN max = POW * 5, HP = ceil((CON + SIZ) / 2)
Investigator(pow, sanCurrent, skills) ==
    [stats |-> [STR |-> 10, CON |-> 10, POW |-> pow, DEX |-> 10,
                APP |-> 10, SIZ |-> 10, INT |-> 10, EDU |-> 10],
     hp |-> [current |-> 10, max |-> 10],
     mp |-> [current |-> pow, max |-> pow],
     san |-> [current |-> sanCurrent, max |-> pow * 5],
     skills |-> skills,
     madness |-> NoMadness]

NoSkills == [n \in {} |-> 0]

\* the roster a session starts from: "a" has POW 6 (SAN 30 of 30, the SAN of a
\* created character whose POW was set to 6) and edited skills; "b" has POW 3
\* (SAN 4 of 15) and the empty skill map of a character whose skills were
\* never edited.  Current SAN below the maximum comes from an imported sheet
\* (parseIacharaText keeps min(current, max)).
InitialParties ==
    {[id \in CharacterIds |->
        IF id = "a" THEN Investigator(6, 30, [n \in {Spot, Dodge} |-> IF n = Spot THEN 40 ELSE 60])
        ELSE Investigator(3, 4, NoSkills)]}

\* dice notations of the narrator's sanity checks and generic rolls
N_0_5 == <<"0", "/", "5">>                                   \* "0/5"
N_1_1d2p4 == <<"1", "/", "1", "d", "2", "+", "4">>           \* "1/1d2+4"
N_d1_5 == <<"d", "1", "/", "5">>                             \* "d1/5"
N_D1_1d2p4 == <<"1", "D", "1", "/", "1", "d", "2", "+", "4">> \* "1D1/1d2+4"
N_5 == <<" ", "5">>                                          \* " 5"
N_1d2m2 == <<"1", "d", "2", " ", "-", "2">>                  \* "1d2 -2"
N_1d6 == <<"1", "d", "6">>                                   \* "1d6"
N_3 == <<"3">>                                               \* "3"

PartySanityNotations == {N_0_5, N_1_1d2p4, N_d1_5, N_D1_1d2p4, N_5, N_1d2m2}
SingleSanityNotations == {N_1_1d2p4, N_1d2m2}
GenericNotations == {N_1d6, N_3}

\* the scenario generateScenarioOutline returns when the request fails
DefaultScenario ==
    [title |-> "default", estimatedPlayTime |-> "3-4 hours"]

\* parseResponse's fallback reply: no checks, two suggested actions
FallbackResponse ==
    [sanityCheck |-> NULL, skillCheck |-> <<>>, statCheck |-> NULL,
     diceRollRequired |-> NULL, madnessRecovery |-> NULL,
     suggestedActions |-> TRUE, gameOver |-> FALSE, gameClear |-> FALSE]

\* the replies the narrator gives in the model (KeeperResponse)
PlainResponses ==
    {FallbackResponse,
     [FallbackResponse EXCEPT !.suggestedActions = FALSE],
     [FallbackResponse EXCEPT !.gameOver = TRUE],
     [FallbackResponse EXCEPT !.gameClear = TRUE]}

CheckResponses ==
    PlainResponses
    \cup {[FallbackResponse EXCEPT !.skillCheck = <<"<", "Spot", ">">>],
          [FallbackResponse EXCEPT !.statCheck = [stat |-> "POW"]]}
    \cup {[FallbackResponse EXCEPT !.diceRollRequired = [roll |-> n]] : n \in GenericNotations}

RecoveryResponses ==
    {[FallbackResponse EXCEPT !.madnessRecovery = [characterId |-> "a", type |-> "temporary"]]}

SanityResponses ==
    PlainResponses
    \cup RecoveryResponses
    \cup {[FallbackResponse EXCEPT !.sanityCheck = [roll |-> n, targetAll |-> TRUE]] :
            n \in PartySanityNotations}
    \cup {[FallbackResponse EXCEPT !.sanityCheck = [roll |-> n, targetAll |-> FALSE]] :
            n \in SingleSanityNotations}

Responses ==
    CheckResponses
    \cup RecoveryResponses
    \cup {[FallbackResponse EXCEPT !.sanityCheck = [roll |-> N_1_1d2p4, targetAll |-> FALSE]],
          [FallbackResponse EXCEPT !.sanityCheck = [roll |-> N_D1_1d2p4, targetAll |-> TRUE]],
          [FallbackResponse EXCEPT !.skillCheck = Dodge,
                                   !.sanityCheck = [roll |-> N_0_5, targetAll |-> FALSE]]}

-----------------------------------------------------------------------------
(* Initial state: GamePlayScreen has mounted, startGame has sent the       *)
(* opening request and awaits the narrator (isLoading = true)              *)

\* a sendPlayerAction call: the roster and rollResult it is given, and the
\* numbers its action text reports (detail)
Request(kind, party, rollResult, detail) ==
    [kind |-> kind, characters |-> party, rollResult |-> rollResult, detail |-> detail]

Init ==
    /\ gameState = "Playing"
    /\ characters \in InitialParties
    /\ isLoading = TRUE
    /\ pendingAction = NULL
    /\ modalAction = NULL
    /\ lastFailedSkillCheck = NULL
    /\ diceRollRequest = NULL
    /\ inFlight = <<Request("start", characters, NULL, NULL)>>
    /\ turns = 0
    /\ scenario = DefaultScenario
    /\ isScenarioOptionsModalOpen = FALSE
    /\ outlineRequest = NULL
    /\ rewards = NULL
    /\ creation = NULL
    /\ input = NULL
    /\ output = NULL

\* the component is mounted and the operator may still act
Mounted == gameState = "Playing"
CanAct == Mounted /\ turns < MaxTurns

\* hasPendingChoice without its diceRollRequired operand
hasPendingChoice_NoDiceRoll ==
    /\ pendingAction # NULL
    /\ \/ pendingAction.skillCheck # <<>>
       \/ pendingAction.statCheck # NULL
       \/ pendingAction.sanityCheck # NULL

\* hasPendingChoice
hasPendingChoice ==
    /\ pendingAction # NULL
    /\ \/ pendingAction.skillCheck # <<>>
       \/ pendingAction.statCheck # NULL
       \/ pendingAction.sanityCheck # NULL
       \/ pendingAction.diceRollRequired # NULL

RemoveAt(seq, i) == SubSeq(seq, 1, i - 1) \o SubSeq(seq, i + 1, Len(seq))

-----------------------------------------------------------------------------
(* The narrator answers a request *)

\* the madnessRecovery part recovering any madness whatever type is requested
madnessRecovery_AnyType(chars, recovery) ==
    IF recovery = NULL \/ recovery.characterId \notin DOMAIN chars THEN chars
    ELSE IF chars[recovery.characterId].madness.type # "null"
         THEN [chars EXCEPT ![recovery.characterId].madness = [type |-> "null"]]
         ELSE chars

\* processKeeperResponse, madnessRecovery part: the roster after the request
madnessRecovery(chars, recovery) ==
    IF recovery = NULL \/ recovery.characterId \notin DOMAIN chars THEN chars
    ELSE LET character == chars[recovery.characterId]
             shouldRecover ==
                 \/ recovery.type = "both"
                 \/ recovery.type = "temporary" /\ character.madness.type = "temporary"
                 \/ recovery.type = "indefinite" /\ character.madness.type = "indefinite"
         IN  IF character.madness.type # "null" /\ shouldRecover
             THEN [chars EXCEPT ![recovery.characterId].madness = [type |-> "null"]]
             ELSE chars

\* the system message the madnessRecovery part schedules: the recovery
\* message, the warning of its else branch, or none
madnessRecoveryNotice(chars, recovery) ==
    IF recovery = NULL THEN "none"
    ELSE IF /\ recovery.characterId \in DOMAIN chars
            /\ chars[recovery.characterId].madness.type # "null"
    THEN IF madnessRecovery(chars, recovery) # chars THEN "recovered" ELSE "none"
    ELSE "warning"

\* App.handleGameClear(response.rewards): the rewards of the reply, which the
\* narrator grants to the roster of the request it answers
rewardsOf(response, request) ==
    IF response.gameClear THEN [roster |-> DOMAIN request.characters] ELSE rewards

\* App.handleGameClear / App.handleGameOver, or no change
terminalOf(response) ==
    IF response.gameClear THEN "GameClear"
    ELSE IF response.gameOver THEN "GameOver"
    ELSE gameState

\* a reply arrives: processKeeperResponse (startGame's own copy of it for the
\* opening request, which does not look at madnessRecovery).  After the
\* screen is unmounted only the App callbacks still have an effect; so it is
\* for the reply to a request of an earlier GamePlayScreen ("orphaned").
KeeperRespondWith(replies) ==
    \E i \in 1..Len(inFlight), response \in replies :
        /\ inFlight' = RemoveAt(inFlight, i)
        /\ gameState' = terminalOf(response)
        /\ rewards' = rewardsOf(response, inFlight[i])
        /\ IF Mounted /\ inFlight[i].kind # "orphaned"
           THEN /\ characters' = IF inFlight[i].kind = "start" THEN characters
                                 ELSE madnessRecovery(characters, response.madnessRecovery)
                /\ isLoading' = FALSE
                /\ pendingAction' = IF response.gameClear \/ response.gameOver
                                    THEN NULL ELSE response
           ELSE UNCHANGED <<characters, isLoading, pendingAction>>
        /\ UNCHANGED <<modalAction, lastFailedSkillCheck, diceRollRequest, turns>>
        /\ UNCHANGED <<scenario, isScenarioOptionsModalOpen, outlineRequest>>
        /\ UNCHANGED <<creation, input, output>>

-----------------------------------------------------------------------------
(* Free-text and suggested actions *)

\* handlePlayerAction(actionText): decrement, clear the push offer, send
handlePlayerAction ==
    /\ characters' = decrementMadnessDuration(characters)
    /\ lastFailedSkillCheck' = NULL
    /\ isLoading' = TRUE
    /\ pendingAction' = NULL
    /\ inFlight' = Append(inFlight, Request("action", characters, NULL, NULL))
    /\ UNCHANGED <<gameState, modalAction, diceRollRequest>>

\* the form's submit button: disabled = isLoading || hasPendingChoice || !input.trim()
handleSubmit ==
    /\ CanAct
    /\ ~(isLoading \/ hasPendingChoice)
    /\ handlePlayerAction
    /\ turns' = turns + 1
    /\ UNCHANGED <<appVars, creation, input, output>>

\* a suggested-action button: shown when suggestedActions && !hasPendingChoice && !isLoading
handleSuggestedActionClick ==
    /\ CanAct
    /\ pendingAction # NULL /\ pendingAction.suggestedActions
    /\ ~hasPendingChoice /\ ~isLoading
    /\ handlePlayerAction
    /\ turns' = turns + 1
    /\ UNCHANGED <<appVars, creation, input, output>>

-----------------------------------------------------------------------------
(* Offered checks: the check buttons and the character-selection modal *)

\* the buttons of pendingAction are shown when pendingAction && !isLoading;
\* each calls setModalAction({type, ...})
OpenModalWith(action) ==
    /\ Mounted
    /\ pendingAction # NULL /\ ~isLoading
    /\ modalAction' = action
    /\ UNCHANGED <<gameState, characters, isLoading, pendingAction,
                   lastFailedSkillCheck, diceRollRequest, inFlight, turns>>
    /\ UNCHANGED <<appVars, creation, input, output>>

\* the skill-check button
OpenSkillModal ==
    /\ pendingAction # NULL /\ pendingAction.skillCheck # <<>>
    /\ OpenModalWith([type |-> "skill", skill |-> pendingAction.skillCheck])

\* the stat-check button
OpenStatModal ==
    /\ pendingAction # NULL /\ pendingAction.statCheck # NULL
    /\ OpenModalWith([type |-> "stat", statCheck |-> pendingAction.statCheck])

\* the sanity-check button
OpenSanityModal ==
    /\ pendingAction # NULL /\ pendingAction.sanityCheck # NULL
    /\ OpenModalWith([type |-> "sanity", roll |-> pendingAction.sanityCheck.roll,
                      targetAll |-> pendingAction.sanityCheck.targetAll])

\* ActionModal.onClose
CloseModal ==
    /\ Mounted
    /\ modalAction # NULL
    /\ modalAction' = NULL
    /\ UNCHANGED <<gameState, characters, isLoading, pendingAction,
                   lastFailedSkillCheck, diceRollRequest, inFlight, turns>>
    /\ UNCHANGED <<appVars, creation, input, output>>

\* skill.replace(/[<>]/g, '') with "<" and ">" for the brackets U+3008 and U+3009
cleanedSkill(skill) == SelectSeq(skill, LAMBDA c : c \notin {"<", ">"})

\* character.skills[cleanedSkill] ?? 0
skillValue(character, skill) ==
    IF cleanedSkill(skill) \in DOMAIN character.skills
    THEN character.skills[cleanedSkill(skill)] ELSE 0

\* statValue * multiplier, the multiplier defaulting to 5
targetValue(character, statCheck) ==
    character.stats[statCheck.stat]
        * (IF "multiplier" \in DOMAIN statCheck THEN statCheck.multiplier ELSE 5)

\* handleSkillCheck without its decrementMadnessDuration call
handleSkillCheck_NoDecrement(skill, characterId) ==
    /\ pendingAction' = NULL
    /\ lastFailedSkillCheck' = NULL
    /\ diceRollRequest' = [kind |-> "skill", notation |-> D100,
                           characterId |-> characterId,
                           skill |-> cleanedSkill(skill),
                           value |-> skillValue(characters[characterId], skill),
                           characters |-> characters]
    /\ UNCHANGED <<gameState, characters, isLoading, inFlight>>

\* handleSkillCheck(skill, characterId) up to the dice request
handleSkillCheck(skill, characterId) ==
    /\ pendingAction' = NULL
    /\ lastFailedSkillCheck' = NULL
    /\ characters' = decrementMadnessDuration(characters)
    /\ diceRollRequest' = [kind |-> "skill", notation |-> D100,
                           characterId |-> characterId,
                           skill |-> cleanedSkill(skill),
                           value |-> skillValue(characters[characterId], skill),
                           characters |-> characters]
    /\ UNCHANGED <<gameState, isLoading, inFlight>>

\* handleStatCheck(stat, multiplier, reason, characterId) up to the dice request
handleStatCheck(statCheck, characterId) ==
    /\ pendingAction' = NULL
    /\ lastFailedSkillCheck' = NULL
    /\ characters' = decrementMadnessDuration(characters)
    /\ diceRollRequest' = [kind |-> "stat", notation |-> D100,
                           characterId |-> characterId,
                           skill |-> statCheck,
                           value |-> targetValue(characters[characterId], statCheck),
                           characters |-> characters]
    /\ UNCHANGED <<gameState, isLoading, inFlight>>

\* handleSanityCheck(roll, reason, characterId) up to the first dice request;
\* characterId is a character's id or "all"
handleSanityCheck(roll, characterId) ==
    /\ lastFailedSkillCheck' = NULL
    /\ characters' = decrementMadnessDuration(characters)
    /\ diceRollRequest' = [kind |-> IF characterId = "all" THEN "sanityAll" ELSE "sanity",
                           notation |-> D100,
                           roll |-> roll,
                           characterId |-> characterId,
                           characters |-> characters]
    /\ UNCHANGED <<gameState, isLoading, pendingAction, inFlight>>

\* ActionModal.onSelect(charId) of a skill check: handleSkillCheck, then
\* setModalAction(null)
SelectSkillCharacter ==
    /\ CanAct
    /\ modalAction # NULL /\ modalAction.type = "skill"
    /\ \E id \in DOMAIN characters : handleSkillCheck(modalAction.skill, id)
    /\ modalAction' = NULL
    /\ turns' = turns + 1
    /\ UNCHANGED <<appVars, creation, input, output>>

\* ActionModal.onSelect(charId) of a stat check
SelectStatCharacter ==
    /\ CanAct
    /\ modalAction # NULL /\ modalAction.type = "stat"
    /\ \E id \in DOMAIN characters : handleStatCheck(modalAction.statCheck, id)
    /\ modalAction' = NULL
    /\ turns' = turns + 1
    /\ UNCHANGED <<appVars, creation, input, output>>

\* ActionModal.onSelect(charId) of a sanity check; "all" is offered when the
\* check has targetAll
SelectSanityCharacter ==
    /\ CanAct
    /\ modalAction # NULL /\ modalAction.type = "sanity"
    /\ \E id \in DOMAIN characters \cup (IF modalAction.targetAll THEN {"all"} ELSE {}) :
           handleSanityCheck(modalAction.roll, id)
    /\ modalAction' = NULL
    /\ turns' = turns + 1
    /\ UNCHANGED <<appVars, creation, input, output>>

\* the generic dice button: handleGenericDiceRoll(roll, reason)
handleGenericDiceRoll ==
    /\ CanAct
    /\ pendingAction # NULL /\ ~isLoading
    /\ pendingAction.diceRollRequired # NULL
    /\ lastFailedSkillCheck' = NULL
    /\ characters' = decrementMadnessDuration(characters)
    /\ diceRollRequest' = [kind |-> "generic",
                           notation |-> pendingAction.diceRollRequired.roll,
                           characters |-> characters]
    /\ turns' = turns + 1
    /\ UNCHANGED <<gameState, isLoading, pendingAction, modalAction, inFlight>>
    /\ UNCHANGED <<appVars, creation, input, output>>

-----------------------------------------------------------------------------
(* Dice acquisition: DiceRollModal rolls parseAndRoll(notation) and hands   *)
(* the result to the request's onComplete                                   *)

\* the rollResult argument of sendPlayerAction
RollResult(characterId, skill, value, result, dice) ==
    [characterName |-> characterId, skill |-> skill, value |-> value,
     result |-> result, dice |-> dice]

\* handleSkillCheck's onComplete(diceRoll)
SkillCheckOnComplete ==
    /\ Mounted
    /\ diceRollRequest.kind = "skill"
    /\ \E diceRoll \in Rolls(diceRollRequest.notation) :
        LET req == diceRollRequest
            result == skillCheckResult(diceRoll, req.value)
        IN  IF isSuccess(result)
            THEN /\ isLoading' = TRUE
                 /\ inFlight' = Append(inFlight, Request("checkResult", req.characters,
                        RollResult(req.characterId, req.skill, req.value, result, diceRoll), NULL))
                 /\ UNCHANGED lastFailedSkillCheck
            ELSE /\ lastFailedSkillCheck' =
                        [characterId |-> req.characterId, skill |-> req.skill,
                         value |-> req.value, dice |-> diceRoll, result |-> result]
                 /\ UNCHANGED <<isLoading, inFlight>>
    /\ diceRollRequest' = NULL
    /\ UNCHANGED <<gameState, characters, pendingAction, modalAction, turns>>
    /\ UNCHANGED <<appVars, creation, input, output>>

\* handleStatCheck's onComplete(diceRoll)
StatCheckOnComplete ==
    /\ Mounted
    /\ diceRollRequest.kind = "stat"
    /\ \E diceRoll \in Rolls(diceRollRequest.notation) :
        LET req == diceRollRequest
            result == statCheckResult(diceRoll, req.value)
        IN  IF isSuccess(result)
            THEN /\ isLoading' = TRUE
                 /\ inFlight' = Append(inFlight, Request("checkResult", req.characters,
                        RollResult(req.characterId, req.skill, req.value, result, diceRoll), NULL))
                 /\ UNCHANGED lastFailedSkillCheck
            ELSE /\ lastFailedSkillCheck' =
                        [characterId |-> req.characterId, skill |-> req.skill,
                         value |-> req.value, dice |-> diceRoll, result |-> result]
                 /\ UNCHANGED <<isLoading, inFlight>>
    /\ diceRollRequest' = NULL
    /\ UNCHANGED <<gameState, characters, pendingAction, modalAction, turns>>
    /\ UNCHANGED <<appVars, creation, input, output>>

\* the push-roll panel is shown when lastFailedSkillCheck && !isLoading
pushRollOffered == lastFailedSkillCheck # NULL /\ ~isLoading

\* handleDeclinePushRoll reporting a plain failure whatever the recorded tier
handleDeclinePushRoll_PlainFailure ==
    /\ CanAct
    /\ pushRollOffered
    /\ lastFailedSkillCheck' = NULL
    /\ isLoading' = TRUE
    /\ pendingAction' = NULL
    /\ inFlight' = Append(inFlight, Request("declined", characters,
            RollResult(lastFailedSkillCheck.characterId, lastFailedSkillCheck.skill,
                       lastFailedSkillCheck.value, "Failure",
                       lastFailedSkillCheck.dice), NULL))
    /\ turns' = turns + 1
    /\ UNCHANGED <<gameState, characters, modalAction, diceRollRequest>>
    /\ UNCHANGED <<appVars, creation, input, output>>

\* handleDeclinePushRoll: forward the recorded failure
handleDeclinePushRoll ==
    /\ CanAct
    /\ pushRollOffered
    /\ lastFailedSkillCheck' = NULL
    /\ isLoading' = TRUE
    /\ pendingAction' = NULL
    /\ inFlight' = Append(inFlight, Request("declined", characters,
            RollResult(lastFailedSkillCheck.characterId, lastFailedSkillCheck.skill,
                       lastFailedSkillCheck.value, lastFailedSkillCheck.result,
                       lastFailedSkillCheck.dice), NULL))
    /\ turns' = turns + 1
    /\ UNCHANGED <<gameState, characters, modalAction, diceRollRequest>>
    /\ UNCHANGED <<appVars, creation, input, output>>

\* handlePushRoll up to the dice request
handlePushRoll ==
    /\ CanAct
    /\ pushRollOffered
    /\ characters' = decrementMadnessDuration(characters)
    /\ lastFailedSkillCheck' = NULL
    /\ isLoading' = TRUE
    /\ diceRollRequest' = [kind |-> "push", notation |-> D100,
                           characterId |-> lastFailedSkillCheck.characterId,
                           skill |-> lastFailedSkillCheck.skill,
                           value |-> lastFailedSkillCheck.value,
                           characters |-> characters]
    /\ turns' = turns + 1
    /\ UNCHANGED <<gameState, pendingAction, modalAction, inFlight>>
    /\ UNCHANGED <<appVars, creation, input, output>>

\* handlePushRoll's onComplete treating a failed push like a failed check:
\* the failure is recorded for another push instead of being sent
PushRollOnComplete_OffersAgain ==
    /\ Mounted
    /\ diceRollRequest.kind = "push"
    /\ \E diceRoll \in Rolls(diceRollRequest.notation) :
        LET req == diceRollRequest
            result == pushRollResult(diceRoll, req.value)
        IN  IF isSuccess(result)
            THEN /\ inFlight' = Append(inFlight, Request("pushResult", req.characters,
                        RollResult(req.characterId, req.skill, req.value, result, diceRoll), NULL))
                 /\ UNCHANGED <<isLoading, lastFailedSkillCheck>>
            ELSE /\ lastFailedSkillCheck' =
                        [characterId |-> req.characterId, skill |-> req.skill,
                         value |-> req.value, dice |-> diceRoll, result |-> result]
                 /\ isLoading' = FALSE
                 /\ UNCHANGED inFlight
    /\ diceRollRequest' = NULL
    /\ UNCHANGED <<gameState, characters, pendingAction, modalAction, turns>>
    /\ UNCHANGED <<appVars, creation, input, output>>

\* handlePushRoll's onComplete(diceRoll): the result is sent whatever it is
PushRollOnComplete ==
    /\ Mounted
    /\ diceRollRequest.kind = "push"
    /\ \E diceRoll \in Rolls(diceRollRequest.notation) :
        LET req == diceRollRequest
            result == pushRollResult(diceRoll, req.value)
        IN  inFlight' = Append(inFlight, Request("pushResult", req.characters,
                RollResult(req.characterId, req.skill, req.value, result, diceRoll), NULL))
    /\ diceRollRequest' = NULL
    /\ UNCHANGED <<gameState, characters, isLoading, pendingAction, modalAction,
                   lastFailedSkillCheck, turns>>
    /\ UNCHANGED <<appVars, creation, input, output>>

\* handleSystemAction(actionText, systemMessage) with the roster of its closure
handleSystemAction(kind, party, detail) ==
    /\ lastFailedSkillCheck' = NULL
    /\ isLoading' = TRUE
    /\ pendingAction' = NULL
    /\ inFlight' = Append(inFlight, Request(kind, party, NULL, detail))

\* the game-over branch of the sanity handlers: onGameOver(), setIsLoading(false),
\* setPendingAction(null), return
sanityGameOver ==
    /\ gameState' = "GameOver"
    /\ isLoading' = FALSE
    /\ pendingAction' = NULL
    /\ UNCHANGED <<lastFailedSkillCheck, inFlight>>

\* handleGenericDiceRoll's onComplete(result)
GenericDiceOnComplete ==
    /\ Mounted
    /\ diceRollRequest.kind = "generic"
    /\ \E result \in Rolls(diceRollRequest.notation) :
        handleSystemAction("diceResult", diceRollRequest.characters, [result |-> result])
    /\ diceRollRequest' = NULL
    /\ UNCHANGED <<gameState, characters, modalAction, turns>>
    /\ UNCHANGED <<appVars, creation, input, output>>

-----------------------------------------------------------------------------
(* Sanity checks *)

\* the dice requests of handleSanityCheck: the 1d100 roll of an individual or
\* a party-wide check and the rolled losses that follow it
SanityRollKinds ==
    {"sanity", "sanityLoss", "sanityAll", "sanityAllSuccessFirst",
     "sanityAllFailure", "sanityAllSuccess", "sanityAllSingle"}

\* the loss side chosen the wrong way round
sanLossRoll_Swapped(roll, success) ==
    LET rollParts == SplitSlash(roll)
    IN  IF Len(rollParts) = 2
        THEN (IF success THEN rollParts[2] ELSE rollParts[1])
        ELSE roll

\* the side of the loss notation an individual check uses: rollParts[0] on
\* success and rollParts[1] on failure when roll.split('/') has two parts,
\* else the whole notation
sanLossRoll(roll, success) ==
    LET rollParts == SplitSlash(roll)
    IN  IF Len(rollParts) = 2
        THEN (IF success THEN rollParts[1] ELSE rollParts[2])
        ELSE roll

\* the end of an individual check ending the game below 0 SAN only
individualSanityLoss_BelowZero(req, loss) ==
    LET character == req.characters[req.characterId]
        newSan == Max(0, character.san.current - loss)
    IN  /\ \E madnessResult \in checkForMadness(character, loss) :
               characters' = [characters EXCEPT ![req.characterId] =
                                  applySanityResult(@, newSan, madnessResult)]
        /\ diceRollRequest' = NULL
        /\ IF newSan < 0
           THEN sanityGameOver
           ELSE /\ handleSystemAction("sanityResult", req.characters, [loss |-> loss])
                /\ UNCHANGED gameState

\* the end of an individual check, with a fixed or a rolled loss: new SAN from
\* the character of the handler's closure, madness onset, then game over at
\* 0 SAN or the report to the narrator
individualSanityLoss(req, loss) ==
    LET character == req.characters[req.characterId]
        newSan == Max(0, character.san.current - loss)
    IN  /\ \E madnessResult \in checkForMadness(character, loss) :
               characters' = [characters EXCEPT ![req.characterId] =
                                  applySanityResult(@, newSan, madnessResult)]
        /\ diceRollRequest' = NULL
        /\ IF newSan <= 0
           THEN sanityGameOver
           ELSE /\ handleSystemAction("sanityResult", req.characters, [loss |-> loss])
                /\ UNCHANGED gameState

\* handleSanityCheck (individual): onComplete(sanRoll) of the 1d100 roll
SanityRollOnComplete ==
    /\ Mounted
    /\ diceRollRequest.kind = "sanity"
    /\ \E sanRoll \in Rolls(diceRollRequest.notation) :
        LET req == diceRollRequest
            success == sanRoll <= req.characters[req.characterId].san.current
            lossRoll == sanLossRoll(req.roll, success)
            fixedSanLoss == parseFixedOrRoll(lossRoll)
        IN  IF fixedSanLoss >= 0
            THEN individualSanityLoss(req, fixedSanLoss)
            ELSE /\ diceRollRequest' = [kind |-> "sanityLoss", notation |-> lossRoll,
                                        characterId |-> req.characterId,
                                        isSuccess |-> success,
                                        characters |-> req.characters]
                 /\ UNCHANGED <<gameState, characters, isLoading, pendingAction,
                                lastFailedSkillCheck, inFlight>>
    /\ UNCHANGED <<modalAction, turns>>
    /\ UNCHANGED <<appVars, creation, input, output>>

\* handleSanityCheck (individual): onComplete(sanLoss) of the rolled loss
SanityLossOnComplete ==
    /\ Mounted
    /\ diceRollRequest.kind = "sanityLoss"
    /\ \E sanLoss \in Rolls(diceRollRequest.notation) :
        individualSanityLoss(diceRollRequest, sanLoss)
    /\ UNCHANGED <<modalAction, turns>>
    /\ UNCHANGED <<appVars, creation, input, output>>

\* processAllCharactersSanCheck giving every character but the first the
\* failure loss whatever its own result
processAllCharactersSanCheck_FirstOnly(req, results, successLoss, failureLoss) ==
    LET actualLoss(id) == IF id = "a" /\ results[id] THEN successLoss ELSE failureLoss
        newSan(id) == Max(0, req.characters[id].san.current - actualLoss(id))
        onsets(id) == IF actualLoss(id) > 0
                      THEN checkForMadness(req.characters[id], actualLoss(id))
                      ELSE {[type |-> "null"]}
    IN  /\ \E madnessResult \in [CharacterIds -> UNION {onsets(id) : id \in CharacterIds}] :
            /\ \A id \in CharacterIds : madnessResult[id] \in onsets(id)
            /\ characters' = [id \in CharacterIds |->
                                 applySanityResult(characters[id], newSan(id), madnessResult[id])]
        /\ diceRollRequest' = NULL
        /\ IF \E id \in CharacterIds : newSan(id) <= 0
           THEN sanityGameOver
           ELSE /\ handleSystemAction("sanityAllResult", req.characters,
                        [successLoss |-> successLoss, failureLoss |-> failureLoss])
                /\ UNCHANGED gameState

\* processAllCharactersSanCheck(results, successLoss, failureLoss, reason);
\* results maps each character of the closure's roster to isSuccess
processAllCharactersSanCheck(req, results, successLoss, failureLoss) ==
    LET actualLoss(id) == IF results[id] THEN successLoss ELSE failureLoss
        newSan(id) == Max(0, req.characters[id].san.current - actualLoss(id))
        onsets(id) == IF actualLoss(id) > 0
                      THEN checkForMadness(req.characters[id], actualLoss(id))
                      ELSE {[type |-> "null"]}
    IN  /\ \E madnessResult \in [CharacterIds -> UNION {onsets(id) : id \in CharacterIds}] :
            /\ \A id \in CharacterIds : madnessResult[id] \in onsets(id)
            /\ characters' = [id \in CharacterIds |->
                                 applySanityResult(characters[id], newSan(id), madnessResult[id])]
        /\ diceRollRequest' = NULL
        /\ IF \E id \in CharacterIds : newSan(id) <= 0
           THEN sanityGameOver
           ELSE /\ handleSystemAction("sanityAllResult", req.characters,
                        [successLoss |-> successLoss, failureLoss |-> failureLoss])
                /\ UNCHANGED gameState

\* a further dice request of the party-wide check
sanityAllRequest(req, kind, notation, results, successLoss) ==
    /\ diceRollRequest' = [kind |-> kind, notation |-> notation, roll |-> req.roll,
                           results |-> results, successLoss |-> successLoss,
                           characters |-> req.characters]
    /\ UNCHANGED <<gameState, characters, isLoading, pendingAction,
                   lastFailedSkillCheck, inFlight>>

\* handleSanityCheck ('all'): onComplete(firstRoll) of the shared 1d100 roll
SanityAllRollOnComplete ==
    /\ Mounted
    /\ diceRollRequest.kind = "sanityAll"
    /\ \E sanCheckRoll \in Rolls(diceRollRequest.notation) :
        LET req == diceRollRequest
            rollParts == SplitSlash(req.roll)
            results == [id \in CharacterIds |-> sanCheckRoll <= req.characters[id].san.current]
            hasSuccess == \E id \in CharacterIds : results[id]
            hasFailure == \E id \in CharacterIds : ~results[id]
        IN  IF Len(rollParts) = 2
            THEN LET successFixed == parseFixedOrRoll(rollParts[1])
                     failureFixed == parseFixedOrRoll(rollParts[2])
                 IN  IF hasSuccess /\ hasFailure
                     THEN IF successFixed >= 0
                          THEN IF failureFixed >= 0
                               THEN processAllCharactersSanCheck(req, results, successFixed, failureFixed)
                               ELSE sanityAllRequest(req, "sanityAllFailure", rollParts[2], results, successFixed)
                          ELSE sanityAllRequest(req, "sanityAllSuccessFirst", rollParts[1], results, 0)
                     ELSE IF hasSuccess
                     THEN IF successFixed >= 0
                          THEN processAllCharactersSanCheck(req, results, successFixed, 0)
                          ELSE sanityAllRequest(req, "sanityAllSuccess", rollParts[1], results, 0)
                     ELSE IF failureFixed >= 0
                          THEN processAllCharactersSanCheck(req, results, 0, failureFixed)
                          ELSE sanityAllRequest(req, "sanityAllFailure", rollParts[2], results, 0)
            ELSE LET rollFixed == parseFixedOrRoll(req.roll)
                 IN  IF rollFixed >= 0
                     THEN processAllCharactersSanCheck(req, results, rollFixed, rollFixed)
                     ELSE sanityAllRequest(req, "sanityAllSingle", req.roll, results, 0)
    /\ UNCHANGED <<modalAction, turns>>
    /\ UNCHANGED <<appVars, creation, input, output>>

\* handleSanityCheck ('all'): onComplete(successLoss) when successes and
\* failures both exist and the success side is rolled first
SanityAllSuccessFirstOnComplete ==
    /\ Mounted
    /\ diceRollRequest.kind = "sanityAllSuccessFirst"
    /\ \E successLoss \in Rolls(diceRollRequest.notation) :
        LET req == diceRollRequest
            failureRoll == SplitSlash(req.roll)[2]
            failureFixed == parseFixedOrRoll(failureRoll)
        IN  IF failureFixed >= 0
            THEN processAllCharactersSanCheck(req, req.results, successLoss, failureFixed)
            ELSE sanityAllRequest(req, "sanityAllFailure", failureRoll, req.results, successLoss)
    /\ UNCHANGED <<modalAction, turns>>
    /\ UNCHANGED <<appVars, creation, input, output>>

\* handleSanityCheck ('all'): the last rolled loss - the failure side (with the
\* success loss already known), the success side when everybody succeeded, or
\* the single notation applied to both sides
SanityAllLossOnComplete ==
    /\ Mounted
    /\ diceRollRequest.kind \in {"sanityAllFailure", "sanityAllSuccess", "sanityAllSingle"}
    /\ \E loss \in Rolls(diceRollRequest.notation) :
        LET req == diceRollRequest
        IN  CASE req.kind = "sanityAllFailure" ->
                     processAllCharactersSanCheck(req, req.results, req.successLoss, loss)
              [] req.kind = "sanityAllSuccess" ->
                     processAllCharactersSanCheck(req, req.results, loss, 0)
              [] req.kind = "sanityAllSingle" ->
                     processAllCharactersSanCheck(req, req.results, loss, loss)
    /\ UNCHANGED <<modalAction, turns>>
    /\ UNCHANGED <<appVars, creation, input, output>>

-----------------------------------------------------------------------------

\* the operator's free-text and suggested actions, and closing a modal
PlayerActions ==
    \/ handleSubmit
    \/ handleSuggestedActionClick
    \/ CloseModal

\* skill and stat checks with the push-roll protocol, and generic dice rolls
CheckActions ==
    \/ OpenSkillModal
    \/ OpenStatModal
    \/ SelectSkillCharacter
    \/ SelectStatCharacter
    \/ SkillCheckOnComplete
    \/ StatCheckOnComplete
    \/ handleDeclinePushRoll
    \/ handlePushRoll
    \/ PushRollOnComplete
    \/ handleGenericDiceRoll
    \/ GenericDiceOnComplete

\* sanity checks, individual and party-wide
SanityActions ==
    \/ OpenSanityModal
    \/ SelectSanityCharacter
    \/ SanityRollOnComplete
    \/ SanityLossOnComplete
    \/ SanityAllRollOnComplete
    \/ SanityAllSuccessFirstOnComplete
    \/ SanityAllLossOnComplete

KeeperRespond == KeeperRespondWith(Responses)

Next ==
    \/ KeeperRespond
    \/ PlayerActions
    \/ CheckActions
    \/ SanityActions

Spec == Init /\ [][Next]_vars

\* a session whose narrator offers sanity checks only
KeeperRespondSanity == KeeperRespondWith(SanityResponses)

NextSanity ==
    \/ KeeperRespondSanity
    \/ PlayerActions
    \/ SanityActions

SpecSanity == Init /\ [][NextSanity]_vars

\* a session whose narrator offers skill, stat and generic dice checks only
KeeperRespondChecks == KeeperRespondWith(CheckResponses)

NextChecks ==
    \/ KeeperRespondChecks
    \/ PlayerActions
    \/ CheckActions

SpecChecks == Init /\ [][NextChecks]_vars

-----------------------------------------------------------------------------
(* Serialization of actions *)

\* C1: actions are strictly serialized - while a narrator request is awaited
\* or a check's dice roll is pending no second action can be dispatched, so
\* at most one narrator request is in flight at any time
C1_AtMostOneRequestInFlight == Len(inFlight) <= 1

-----------------------------------------------------------------------------
(* The push-roll protocol *)

\* C2: a failed check is pushed at most once.  Accepting the offer withdraws
\* it and starts one 1d100 roll for the same character and check against the
\* same target; when that roll completes its outcome, success or not, is sent
\* to the narrator and no push-roll offer is left or made.
C2_PushedAtMostOnce ==
    [][/\ (diceRollRequest'.kind = "push" /\ diceRollRequest' # diceRollRequest)
           => /\ lastFailedSkillCheck # NULL
              /\ diceRollRequest'.notation = D100
              /\ diceRollRequest'.characterId = lastFailedSkillCheck.characterId
              /\ diceRollRequest'.skill = lastFailedSkillCheck.skill
              /\ diceRollRequest'.value = lastFailedSkillCheck.value
              /\ lastFailedSkillCheck' = NULL
       /\ (diceRollRequest.kind = "push" /\ diceRollRequest' = NULL)
           => /\ Len(inFlight') = Len(inFlight) + 1
              /\ LET sent == inFlight'[Len(inFlight')]
                 IN  /\ sent.kind = "pushResult"
                     /\ sent.rollResult.characterName = diceRollRequest.characterId
                     /\ sent.rollResult.skill = diceRollRequest.skill
                     /\ sent.rollResult.value = diceRollRequest.value
                     /\ sent.rollResult.dice \in 1..100
              /\ lastFailedSkillCheck = NULL
              /\ lastFailedSkillCheck' = NULL
              /\ ~pushRollOffered'
      ]_vars

\* a failed push-roll has been sent to the narrator and nothing is offered
C2_Witness ==
    /\ lastFailedSkillCheck = NULL
    /\ \E i \in 1..Len(inFlight) :
           /\ inFlight[i].kind = "pushResult"
           /\ inFlight[i].rollResult.result \in {"Failure", "Fumble", "Fumble00"}

\* C3: declining the offered push-roll sends the narrator the failed check as
\* it was recorded when the check failed - same character, check name, target
\* value, die value and tier; the record does not change while it is offered
C3_DeclineForwardsRecordedFailure ==
    [][/\ (lastFailedSkillCheck' # NULL /\ lastFailedSkillCheck' # lastFailedSkillCheck)
           => /\ lastFailedSkillCheck = NULL
              /\ diceRollRequest.kind \in {"skill", "stat"}
              /\ lastFailedSkillCheck'.characterId = diceRollRequest.characterId
              /\ lastFailedSkillCheck'.skill = diceRollRequest.skill
              /\ lastFailedSkillCheck'.value = diceRollRequest.value
       /\ (Len(inFlight') > Len(inFlight) /\ inFlight'[Len(inFlight')].kind = "declined")
           => /\ lastFailedSkillCheck # NULL
              /\ inFlight'[Len(inFlight')].rollResult =
                     [characterName |-> lastFailedSkillCheck.characterId,
                      skill |-> lastFailedSkillCheck.skill,
                      value |-> lastFailedSkillCheck.value,
                      result |-> lastFailedSkillCheck.result,
                      dice |-> lastFailedSkillCheck.dice]
      ]_vars

\* a declined fumble of "a"'s Spot check (40) is on its way to the narrator
C3_Witness ==
    \E i \in 1..Len(inFlight) :
        /\ inFlight[i].kind = "declined"
        /\ inFlight[i].rollResult =
               [characterName |-> "a", skill |-> Spot, value |-> 40,
                result |-> "Fumble", dice |-> 96]

\* C4: when a skill or stat check's roll completes, the push-roll is offered
\* exactly when the tier is Failure, Fumble or Fumble (00), and then nothing is
\* sent; on a success tier the result is sent to the narrator in that step
\* and no push-roll is offered
C4_PushOfferedOnFailureOnly ==
    [][(diceRollRequest.kind \in {"skill", "stat"} /\ diceRollRequest' = NULL)
          => \/ /\ lastFailedSkillCheck' # NULL
                /\ lastFailedSkillCheck'.result \in {"Failure", "Fumble", "Fumble00"}
                /\ lastFailedSkillCheck'.result =
                       skillCheckResult(lastFailedSkillCheck'.dice, diceRollRequest.value)
                /\ inFlight' = inFlight
                /\ isLoading' = isLoading
                /\ (~isLoading => pushRollOffered')
             \/ /\ lastFailedSkillCheck' = NULL
                /\ ~pushRollOffered'
                /\ isLoading'
                /\ Len(inFlight') = Len(inFlight) + 1
                /\ LET sent == inFlight'[Len(inFlight')]
                   IN  /\ sent.kind = "checkResult"
                       /\ sent.rollResult.result \in {"Critical", "Extreme", "Hard", "Regular"}
                       /\ sent.rollResult.result =
                              skillCheckResult(sent.rollResult.dice, diceRollRequest.value)
      ]_vars

\* a fumbled check (96 against a target below 50) is offered for a push
C4_Witness ==
    /\ pushRollOffered
    /\ lastFailedSkillCheck.result = "Fumble"
    /\ lastFailedSkillCheck.dice = 96
    /\ inFlight = <<>>

-----------------------------------------------------------------------------
(* Sanity and madness *)

C6_SanWithinBounds ==
    \A id \in CharacterIds :
        characters[id].san.current \in 0..characters[id].san.max

\* C7: a sanity check that applies a loss L > 0 to a character with SAN
\* maximum M starts indefinite madness when L >= ceil(0.2 * M) (5 * L >= M),
\* otherwise temporary madness with a duration of 1 to 6 when L >= 5, and
\* otherwise leaves the character's madness as it was.  The loss is the drop
\* of current SAN; when SAN is cut off at 0 the loss is at least that drop.
C7_MadnessOnsetByLoss ==
    [][(diceRollRequest.kind \in SanityRollKinds /\ diceRollRequest' = NULL)
          => \A id \in CharacterIds :
                LET before == characters[id]
                    after == characters'[id]
                    L == before.san.current - after.san.current
                    indefinite == after.madness = [type |-> "indefinite"]
                    temporary == /\ after.madness.type = "temporary"
                                 /\ DOMAIN after.madness = {"type", "duration"}
                                 /\ after.madness.duration \in 1..6
                IN  IF after.san.current > 0
                    THEN L > 0 => IF 5 * L >= before.san.max THEN indefinite
                                  ELSE IF L >= 5 THEN temporary
                                  ELSE after.madness = before.madness
                    ELSE /\ 5 * L >= before.san.max => indefinite
                         /\ indefinite \/ temporary \/ after.madness = before.madness
      ]_vars

\* "a" (maximum 30) lost 5 in an individual check, below the threshold of 6,
\* and is in temporary madness
C7_Witness ==
    /\ characters["a"].san.current = 25
    /\ characters["a"].madness.type = "temporary"
    /\ \E i \in 1..Len(inFlight) :
           /\ inFlight[i].kind = "sanityResult"
           /\ inFlight[i].detail = [loss |-> 5]

\* C8: a character is in exactly one of Sane, temporary madness (with 1 to 6
\* rounds remaining) and indefinite madness (with no remaining duration); an
\* onset in a sanity check replaces the whole previous madness record
C8_OneMadnessState ==
    [][\A id \in CharacterIds :
          LET m == characters'[id].madness
          IN  /\ m.type \in {"null", "temporary", "indefinite"}
              /\ m.type = "indefinite" => DOMAIN m = {"type"}
              /\ m.type = "temporary" => /\ DOMAIN m = {"type", "duration"}
                                         /\ m.duration \in 1..6
              /\ ( /\ diceRollRequest.kind \in SanityRollKinds
                   /\ diceRollRequest' = NULL
                   /\ m # characters[id].madness )
                     => m \in {[type |-> "indefinite"]}
                            \cup {[type |-> "temporary", duration |-> d] : d \in 1..6}
      ]_vars

\* "a" went into the check with temporary madness and rounds remaining and is
\* now in indefinite madness
C8_Witness ==
    /\ characters["a"].madness = [type |-> "indefinite"]
    /\ \E i \in 1..Len(inFlight) :
           /\ inFlight[i].kind \in {"sanityResult", "sanityAllResult"}
           /\ inFlight[i].characters["a"].madness.type = "temporary"
           /\ inFlight[i].characters["a"].madness.duration >= 2

\* C9: an action's decrement lowers by one the remaining rounds of every
\* character in temporary madness, makes the character Sane when they reach 0
\* and leaves Sane and indefinitely mad characters as they are, so that a
\* temporary madness of duration d ends at its d-th decrement
C9_DecrementByOne ==
    [][(turns' = turns + 1 /\ characters' # characters)
          => \A id \in CharacterIds :
                LET m == characters[id].madness
                    n == characters'[id].madness
                IN  /\ characters'[id] = [characters[id] EXCEPT !.madness = n]
                    /\ IF m.type = "temporary"
                       THEN IF m.duration = 1
                            THEN n.type = "null" /\ "duration" \notin DOMAIN n
                            ELSE n = [type |-> "temporary", duration |-> m.duration - 1]
                       ELSE n = m
      ]_vars

\* "a" took a free-text action with one round of temporary madness left and
\* is Sane again
C9_Witness ==
    /\ characters["a"].madness.type = "null"
    /\ \E i \in 1..Len(inFlight) :
           /\ inFlight[i].kind = "action"
           /\ inFlight[i].characters["a"].madness = [type |-> "temporary", duration |-> 1]

\* C10: every check (skill, stat, sanity, generic dice, push-roll) and every
\* free-text or suggested action decrements the madness durations once when
\* it is taken; declining a push-roll, completing a dice roll and sending a
\* result to the narrator decrement nothing (a sanity check's result changes
\* a madness only by an onset)
C10_OneDecrementPerAction ==
    [][/\ turns' = turns + 1
           => IF /\ Len(inFlight') > Len(inFlight)
                 /\ inFlight'[Len(inFlight')].kind = "declined"
              THEN characters' = characters
              ELSE characters' = decrementMadnessDuration(characters)
       /\ (turns' = turns /\ Len(inFlight') >= Len(inFlight))
           => \A id \in CharacterIds :
                 LET before == characters[id]
                     after == characters'[id]
                     L == before.san.current - after.san.current
                 IN  \/ after.madness = before.madness
                     \/ /\ diceRollRequest.kind \in SanityRollKinds
                        /\ L > 0
                        /\ after.san.current = 0 \/ L >= 5 \/ 5 * L >= before.san.max
                        /\ after.madness.type \in {"temporary", "indefinite"}
      ]_vars

\* a skill check was started while "a" had rounds of temporary madness left:
\* the roster of the handler's closure has one round more than the state
C10_Witness ==
    /\ diceRollRequest.kind = "skill"
    /\ diceRollRequest.characters["a"].madness.type = "temporary"
    /\ characters["a"].madness.type = "temporary"
    /\ characters["a"].madness.duration =
           diceRollRequest.characters["a"].madness.duration - 1

-----------------------------------------------------------------------------
(* Functions applied on their own: the session variables are at rest and   *)
(* input holds the arguments, output the returned value                    *)

\* no game session: the creation screen is shown and nothing is pending
NoSession ==
    /\ gameState = "CharacterCreation"
    /\ characters = <<>>
    /\ isLoading = FALSE
    /\ pendingAction = NULL
    /\ modalAction = NULL
    /\ lastFailedSkillCheck = NULL
    /\ diceRollRequest = NULL
    /\ inFlight = <<>>
    /\ turns = 0
    /\ scenario = NULL
    /\ isScenarioOptionsModalOpen = FALSE
    /\ outlineRequest = NULL
    /\ rewards = NULL

-----------------------------------------------------------------------------
(* Narrator-driven madness recovery *)

\* the madness records a character can hold during play
MadnessStates ==
    {NoMadness, [type |-> "null"], [type |-> "indefinite"]}
    \cup {[type |-> "temporary", duration |-> d] : d \in MadnessDurations}

\* KeeperResponse.madnessRecovery for a character of the party or an id the
\* party does not have
RecoveryRequests ==
    [characterId : CharacterIds \cup {"z"}, type : {"temporary", "indefinite", "both"}]

InitRecovery ==
    /\ NoSession
    /\ creation = NULL
    /\ \E ma \in MadnessStates, mb \in MadnessStates, recovery \in RecoveryRequests :
           input = [characters |->
                       [id \in CharacterIds |->
                           [Investigator(6, 30, NoSkills) EXCEPT
                               !.madness = IF id = "a" THEN ma ELSE mb]],
                    recovery |-> recovery]
    /\ output = NULL

\* the updater of processKeeperResponse's madnessRecovery part is applied
ApplyMadnessRecovery ==
    /\ input # NULL /\ output = NULL
    /\ output' = [characters |-> madnessRecovery(input.characters, input.recovery),
                  notice |-> madnessRecoveryNotice(input.characters, input.recovery)]
    /\ UNCHANGED <<gameState, characters, isLoading, pendingAction, modalAction,
                   lastFailedSkillCheck, diceRollRequest, inFlight, turns,
                   appVars, creation, input>>

SpecRecovery == InitRecovery /\ [][ApplyMadnessRecovery]_vars

\* C11: a madness recovery makes the named character Sane only if the
\* character's madness type matches the requested type or the request is
\* "both"; in every other case (mismatch, character not mad, unknown id) no
\* character changes and a warning is emitted
C11_RecoveryOrWarning ==
    output # NULL =>
        LET chars == input.characters
            id == input.recovery.characterId
            matches == /\ id \in DOMAIN chars
                       /\ chars[id].madness.type # "null"
                       /\ input.recovery.type \in {"both", chars[id].madness.type}
        IN  IF matches
            THEN output.characters = [chars EXCEPT ![id].madness = [type |-> "null"]]
            ELSE output.characters = chars /\ output.notice = "warning"

\* C11 as the code has it: the character becomes Sane exactly on a match (and
\* the recovery message is scheduled); otherwise no character changes, and
\* the warning is emitted when the character is unknown or not mad, but
\* nothing is emitted when a mad character's type does not match the request
C11_RecoveryOrWarningUnlessMismatch ==
    output # NULL =>
        LET chars == input.characters
            id == input.recovery.characterId
            mad == id \in DOMAIN chars /\ chars[id].madness.type # "null"
            matches == mad /\ input.recovery.type \in {"both", chars[id].madness.type}
        IN  IF matches
            THEN /\ output.characters = [chars EXCEPT ![id].madness = [type |-> "null"]]
                 /\ output.notice = "recovered"
            ELSE /\ output.characters = chars
                 /\ output.notice = IF mad THEN "none" ELSE "warning"

\* a request to end the indefinite madness of "a", who is in temporary
\* madness, changed nothing and emitted nothing
C11_Witness ==
    /\ output # NULL
    /\ input.recovery = [characterId |-> "a", type |-> "indefinite"]
    /\ input.characters["a"].madness.type = "temporary"
    /\ output.characters = input.characters
    /\ output.notice = "none"

-----------------------------------------------------------------------------
(* Party-wide and individual sanity checks *)

\* C12: in a party-wide sanity check one 1d100 roll decides every character
\* (success iff roll <= current SAN); a loss side is rolled at most once, and
\* only when a character is in its branch; when the loss is applied all
\* characters of a branch lose the same amount, a value of that branch's side
\* of the notation
C12_PartyCheckSharedRoll ==
    [][LET req == diceRollRequest
           next == diceRollRequest'
           lossKinds == {"sanityAllSuccessFirst", "sanityAllFailure",
                         "sanityAllSuccess", "sanityAllSingle"}
           judged(r) == [id \in CharacterIds |-> r <= characters[id].san.current]
           losses(n) == IF isFixedValue(n) THEN {ParseDigits(Trim(n))} ELSE parseAndRoll(n)
           parts == SplitSlash(req.roll)
           applied(results, successLoss, failureLoss) ==
               \A id \in CharacterIds :
                   characters'[id].san.current =
                       Max(0, characters[id].san.current
                                - (IF results[id] THEN successLoss ELSE failureLoss))
           uniform(results) ==
               IF Len(parts) = 2
               THEN \E sl \in losses(parts[1]) \cup {0}, fl \in losses(parts[2]) \cup {0} :
                       /\ (\E id \in CharacterIds : results[id]) => sl \in losses(parts[1])
                       /\ (\E id \in CharacterIds : ~results[id]) => fl \in losses(parts[2])
                       /\ applied(results, sl, fl)
               ELSE \E l \in losses(req.roll) : applied(results, l, l)
       IN  /\ (next # req /\ next.kind \in lossKinds)
               => /\ req.kind \in {"sanityAll", "sanityAllSuccessFirst"}
                  /\ req.kind = "sanityAllSuccessFirst" => next.kind = "sanityAllFailure"
                  /\ IF req.kind = "sanityAll"
                     THEN \E r \in 1..100 : next.results = judged(r)
                     ELSE next.results = req.results
                  /\ next.kind = "sanityAllSuccessFirst"
                        => /\ \E id \in CharacterIds : next.results[id]
                           /\ \E id \in CharacterIds : ~next.results[id]
                           /\ next.notation = SplitSlash(next.roll)[1]
                  /\ next.kind = "sanityAllFailure"
                        => /\ \E id \in CharacterIds : ~next.results[id]
                           /\ next.notation = SplitSlash(next.roll)[2]
                  /\ next.kind = "sanityAllSuccess"
                        => /\ \A id \in CharacterIds : next.results[id]
                           /\ next.notation = SplitSlash(next.roll)[1]
                  /\ next.kind = "sanityAllSingle" => next.notation = next.roll
                  /\ characters' = characters
           /\ (req.kind = "sanityAll" /\ next = NULL)
               => \E r \in 1..100 : uniform(judged(r))
           /\ (req.kind \in lossKinds /\ next = NULL)
               => uniform(req.results)
      ]_vars

\* one party-wide check with the shared roll between the two SAN values: "a"
\* succeeded and lost 1, "b" failed and lost all SAN
C12_Witness ==
    /\ turns = 1
    /\ characters["a"].san.current = 29
    /\ characters["b"].san.current = 0
    /\ gameState = "GameOver"

\* C13: an individual sanity check rolls 1d100 first (success iff roll <=
\* current SAN) and then takes only the side of the notation that the outcome
\* selects: a bare integer is applied at once as the loss with no further
\* dice request, any other notation is rolled once, and SAN changes only
\* when that loss is applied
C13_IndividualCheckOrder ==
    [][LET req == diceRollRequest
           next == diceRollRequest'
           san == characters[req.characterId].san.current
           parts == SplitSlash(req.roll)
           side(success) == IF Len(parts) = 2
                            THEN (IF success THEN parts[1] ELSE parts[2])
                            ELSE req.roll
           lost(l) == characters'[req.characterId].san.current = Max(0, san - l)
       IN  /\ (next # req /\ next.kind = "sanityLoss")
               => /\ req.kind = "sanity"
                  /\ \E r \in 1..100 :
                        /\ next.isSuccess = (r <= san)
                        /\ next.notation = side(r <= san)
                  /\ ~isFixedValue(next.notation)
                  /\ next.characterId = req.characterId
                  /\ characters' = characters
           /\ (req.kind = "sanity" /\ next = NULL)
               => \E r \in 1..100 :
                     /\ isFixedValue(side(r <= san))
                     /\ lost(ParseDigits(Trim(side(r <= san))))
           /\ (req.kind = "sanityLoss" /\ next = NULL)
               => \E l \in parseAndRoll(req.notation) : lost(l)
           /\ (next # req /\ next.kind = "sanity")
               => /\ next.notation = D100
                  /\ \A id \in CharacterIds :
                        characters'[id].san = characters[id].san
      ]_vars

\* "a" failed the 1d100 roll of the check "1/1d2+4": the failure side is
\* requested as a dice roll and no SAN has been lost yet
C13_Witness ==
    /\ diceRollRequest.kind = "sanityLoss"
    /\ diceRollRequest.characterId = "a"
    /\ ~diceRollRequest.isSuccess
    /\ diceRollRequest.notation = <<"1", "d", "2", "+", "4">>
    /\ characters["a"].san.current = 30

-----------------------------------------------------------------------------
(* Check resolution: the tier ladders of the three onComplete handlers *)

MaxTarget == 105      \* skill values and push targets are drawn from 0..MaxTarget
MaxStatValue == 21    \* stat values are drawn from 1..MaxStatValue

\* KeeperResponse.statCheck without a multiplier and with one
StatChecks ==
    {[stat |-> "POW"], [stat |-> "POW", multiplier |-> 1], [stat |-> "POW", multiplier |-> 2]}

InitTiers ==
    /\ NoSession
    /\ creation = NULL
    /\ \/ \E kind \in {"skill", "push"}, roll \in 1..100, target \in 0..MaxTarget :
              input = [kind |-> kind, roll |-> roll, target |-> target]
       \/ \E roll \in 1..100, stat \in 1..MaxStatValue, statCheck \in StatChecks :
              input = [kind |-> "stat", roll |-> roll, statCheck |-> statCheck,
                       character |-> [Investigator(6, 30, NoSkills) EXCEPT !.stats.POW = stat]]
    /\ output = NULL

\* the tier ladder of the handler input.kind is applied to the roll
ResolveTier ==
    /\ input # NULL /\ output = NULL
    /\ output' =
           [result |->
               CASE input.kind = "skill" -> skillCheckResult(input.roll, input.target)
                 [] input.kind = "push" -> pushRollResult(input.roll, input.target)
                 [] input.kind = "stat" ->
                        statCheckResult(input.roll,
                                        targetValue(input.character, input.statCheck))]
    /\ UNCHANGED <<gameState, characters, isLoading, pendingAction, modalAction,
                   lastFailedSkillCheck, diceRollRequest, inFlight, turns,
                   appVars, creation, input>>

SpecTiers == InitTiers /\ [][ResolveTier]_vars

C15_HundredIsFumble ==
    (output # NULL /\ input.roll = 100) => output.result = "Fumble00"

-----------------------------------------------------------------------------
(* The interactions a narrator response makes available *)

\* C16: exactly one kind of interaction is available, by priority: a
\* terminal response over an offered check, an offered check over suggested
\* actions, suggested actions over free-text input; a lower kind is not
\* available while a higher one is pending
C16_OneInteractionByPriority ==
    LET check == ENABLED (OpenSkillModal \/ OpenStatModal \/ OpenSanityModal
                          \/ handleGenericDiceRoll)
        suggested == ENABLED handleSuggestedActionClick
        freeText == ENABLED handleSubmit
    IN  /\ gameState \in {"GameOver", "GameClear"} => ~check /\ ~suggested /\ ~freeText
        /\ check => ~suggested /\ ~freeText
        /\ suggested => ~freeText

\* C16 as the code has it: after a terminal response no interaction is
\* available; while a check is offered neither suggested actions nor
\* free-text input is available; suggested actions are available only
\* together with free-text input; and a pending response that ended nothing
\* offers a check or accepts free text
C16_ChecksFirstThenSuggestedWithFreeText ==
    LET check == ENABLED (OpenSkillModal \/ OpenStatModal \/ OpenSanityModal
                          \/ handleGenericDiceRoll)
        suggested == ENABLED handleSuggestedActionClick
        freeText == ENABLED handleSubmit
    IN  /\ gameState \in {"GameOver", "GameClear"}
              => ~ENABLED (PlayerActions \/ CheckActions \/ SanityActions)
        /\ check => ~suggested /\ ~freeText
        /\ suggested => freeText
        /\ (Mounted /\ pendingAction # NULL /\ ~isLoading /\ turns < MaxTurns)
              => check \/ freeText

\* the narrator's reply offers suggested actions and no check: a suggested
\* action can be clicked and free text can be submitted
C16_Witness ==
    /\ pendingAction # NULL
    /\ pendingAction.suggestedActions
    /\ ENABLED handleSuggestedActionClick
    /\ ENABLED handleSubmit

\* ---------------------------------------------------------------------
\* parseResponse: from the narrator's raw reply to a KeeperResponse

\* the fields the response schema of the chat declares as required
RequiredFields == {"description", "actionRequired", "gameOver", "gameClear"}

\* the fixed reply of the catch branch of parseResponse
parseFallback ==
    FallbackResponse @@ [description |-> "error", actionRequired |-> "prompt",
                         rewards |-> NULL]

\* well-formed JSON objects a narrator may send: a full reply, with any of the
\* required fields left out
ReplyBodies ==
    LET full == {[parseFallback EXCEPT !.description = "narration",
                                       !.suggestedActions = FALSE],
                 [parseFallback EXCEPT !.description = "narration",
                                       !.suggestedActions = FALSE,
                                       !.gameOver = TRUE]}
    IN  {[f \in DOMAIN body \ missing |-> body[f]] :
             body \in full, missing \in SUBSET RequiredFields}

\* a raw reply: its text is a JSON object (json) or not JSON at all (NULL),
\* bare, inside a ```json fence, or inside a fence without the json tag
RawReplies ==
    [fence : {"none", "json", "plain"}, json : ReplyBodies \cup {NULL}]

\* text.replace(/^```json\s*|```$/g, ''): the opening fence is removed only
\* when it carries the json tag
cleanedText(reply) ==
    IF reply.fence = "plain" THEN [fence |-> "open", json |-> reply.json]
    ELSE [fence |-> "none", json |-> reply.json]

\* JSON.parse throws on anything but JSON text
parses(cleaned) == cleaned.fence = "none" /\ cleaned.json # NULL

parseResponse(reply) ==
    IF parses(cleanedText(reply)) THEN cleanedText(reply).json
    ELSE parseFallback

InitParse ==
    /\ NoSession
    /\ creation = NULL
    /\ input \in RawReplies
    /\ output = NULL

ParseReply ==
    /\ input # NULL /\ output = NULL
    /\ output' = [response |-> parseResponse(input)]
    /\ UNCHANGED <<gameState, characters, isLoading, pendingAction, modalAction,
                   lastFailedSkillCheck, diceRollRequest, inFlight, turns,
                   appVars, creation, input>>

SpecParse == InitParse /\ [][ParseReply]_vars

\* C17: a narrator reply that cannot be parsed, or that lacks a required
\* field, is replaced by the fixed fallback response (error description,
\* generic suggested actions, no checks, gameOver and gameClear false)
C17_FallbackOnBadReply ==
    output # NULL =>
        LET bad == \/ input.json = NULL
                   \/ input.fence = "plain"
                   \/ RequiredFields \ DOMAIN input.json # {}
        IN  bad => /\ output.response = parseFallback
                   /\ ~output.response.gameOver
                   /\ ~output.response.gameClear

-----------------------------------------------------------------------------
(* Application startup: character creation, scenario options, outline     *)

\* the parties the creation screen can hand over (canStartGame: at least one
\* investigator)
CreatedParties ==
    LET sheets == {Investigator(6, 30, NoSkills), Investigator(3, 4, NoSkills),
                   Investigator(5, 25, NoSkills)}
    IN  UNION {[ids -> sheets] : ids \in SUBSET CharacterIds \ {{}}}

\* the options of the scenario options modal: each may be given or left out
ScenarioOptions == [playTime : BOOLEAN, difficulty : BOOLEAN, synopsis : BOOLEAN]

\* how the generateContent call of generateScenarioOutline can end: the call
\* throws, the reply text is not JSON, or it is a scenario outline
OutlineOutcomes == {"throws", "notJSON", "outline"}

GeneratedScenario == [title |-> "generated", estimatedPlayTime |-> "as requested"]

\* an outline request that ended in an error
REJECTED == [kind |-> "rejected"]

generateScenarioOutline_Rethrows(outcome) ==
    IF outcome = "outline" THEN GeneratedScenario ELSE REJECTED

\* the value the promise of generateScenarioOutline settles with: its try
\* block covers both the call and JSON.parse, its catch returns the default
generateScenarioOutline(outcome) ==
    IF outcome = "outline" THEN GeneratedScenario ELSE DefaultScenario

InitStartup ==
    /\ NoSession
    /\ creation = NULL
    /\ input = NULL
    /\ output = NULL

\* the creation screen (shown in CharacterCreation) hands its party to App
handleCharacterCreationSubmit ==
    /\ gameState = "CharacterCreation"
    /\ \E party \in CreatedParties : characters' = party
    /\ isScenarioOptionsModalOpen' = TRUE
    /\ UNCHANGED <<gameState, isLoading, pendingAction, modalAction,
                   lastFailedSkillCheck, diceRollRequest, inFlight, turns,
                   scenario, outlineRequest, rewards, creation, input, output>>

\* ScenarioOptionsModal onClose
CloseScenarioOptionsModal ==
    /\ isScenarioOptionsModalOpen
    /\ isScenarioOptionsModalOpen' = FALSE
    /\ UNCHANGED <<gameState, characters, isLoading, pendingAction, modalAction,
                   lastFailedSkillCheck, diceRollRequest, inFlight, turns,
                   scenario, outlineRequest, rewards, creation, input, output>>

\* handleGenerateScenario up to its await
handleGenerateScenario ==
    /\ isScenarioOptionsModalOpen
    /\ isScenarioOptionsModalOpen' = FALSE
    /\ gameState' = "GeneratingScenario"
    /\ \E options \in ScenarioOptions :
           outlineRequest' = [characters |-> characters, options |-> options]
    /\ UNCHANGED <<characters, isLoading, pendingAction, modalAction,
                   lastFailedSkillCheck, diceRollRequest, inFlight, turns,
                   scenario, rewards, creation, input, output>>

\* the awaited outline settles and handleGenerateScenario resumes: its try
\* branch on a value, its catch branch on a rejection
OutlineSettled ==
    /\ outlineRequest # NULL
    /\ \E outcome \in OutlineOutcomes :
           LET generatedScenario == generateScenarioOutline(outcome)
           IN  IF generatedScenario # REJECTED
               THEN /\ scenario' = generatedScenario
                    /\ gameState' = "Playing"
                    /\ output' = [outcome |-> outcome]
               ELSE /\ gameState' = "CharacterCreation"
                    /\ output' = [outcome |-> outcome]
                    /\ UNCHANGED scenario
    /\ outlineRequest' = NULL
    /\ UNCHANGED <<characters, isLoading, pendingAction, modalAction,
                   lastFailedSkillCheck, diceRollRequest, inFlight, turns,
                   isScenarioOptionsModalOpen, rewards, creation, input>>

NextStartup ==
    \/ handleCharacterCreationSubmit
    \/ CloseScenarioOptionsModal
    \/ handleGenerateScenario
    \/ OutlineSettled

\* a pending promise settles
SpecStartup == InitStartup /\ [][NextStartup]_vars /\ WF_vars(OutlineSettled)

-----------------------------------------------------------------------------
(* CharacterCreationScreen: attributes, skill totals, allocation table     *)

MaxEdits == 3          \* operations on the sheet's attributes and skills
MaxCustomSkills == 1   \* custom skills a sheet holds at a time

\* the standard skills: Dodge and Own Language have a dynamic base
ALL_SKILLS == <<"dodge", "ownLanguage", "spot">>

\* the names the operator gives to custom skills
CustomNames == {"lore", "myth"}

\* the base values the operator declares for a custom skill
CustomBases == {1, 60}

\* the skills whose base is a formula over the attributes
DYNAMIC_BASE_SKILLS == {"dodge", "ownLanguage"}

dynamicCalc(skillName, stats) ==
    IF skillName = "dodge" THEN stats.DEX * 2 ELSE stats.EDU * 5

\* the fixed base values
INITIAL_SKILLS == [spot |-> 25]

\* the value JavaScript gives to a sum with an undefined operand; it is
\* stored and compared (NaN > 99 is false), never added to
NaN == 0 - 1

Range(seq) == {seq[i] : i \in 1..Len(seq)}

Reverse(seq) == [i \in 1..Len(seq) |-> seq[Len(seq) + 1 - i]]

\* { ...map, [key]: value }
Put(map, key, value) ==
    [n \in DOMAIN map \cup {key} |-> IF n = key THEN value ELSE map[n]]

\* delete map[key]
Drop(map, key) == [n \in DOMAIN map \ {key} |-> map[n]]

NoPoints == [occ |-> 0, int |-> 0]

getBaseSkillValue(skillName, stats, customSkills) ==
    IF skillName \in DYNAMIC_BASE_SKILLS THEN dynamicCalc(skillName, stats)
    ELSE IF \E i \in 1..Len(customSkills) : customSkills[i].name = skillName
    THEN LET i == CHOOSE k \in 1..Len(customSkills) :
                      /\ customSkills[k].name = skillName
                      /\ \A j \in 1..(k - 1) : customSkills[j].name # skillName
         IN  customSkills[i].baseValue
    ELSE IF skillName \in DOMAIN INITIAL_SKILLS THEN INITIAL_SKILLS[skillName]
    ELSE 0

\* allocations[id]?.[skillName] || { occ: 0, int: 0 }
allocOf(allocations, skillName) ==
    IF skillName \in DOMAIN allocations THEN allocations[skillName] ELSE NoPoints

\* base + alloc.occ + alloc.int, NaN when a component is undefined
skillTotal(base, alloc) ==
    IF {"occ", "int"} \subseteq DOMAIN alloc THEN base + alloc["occ"] + alloc["int"]
    ELSE NaN

\* total > 99 ? 99 : total
cap99(total) == IF total > 99 THEN 99 ELSE total

\* [...ALL_SKILLS, ...customSkills.map(cs => cs.name)]
allSkillNames(customSkills) ==
    ALL_SKILLS \o [i \in 1..Len(customSkills) |-> customSkills[i].name]

hitPoints_RoundedDown(stats) == (stats.CON + stats.SIZ) \div 2

\* Math.ceil((CON + SIZ) / 2)
hitPoints(stats) == (stats.CON + stats.SIZ + 1) \div 2

createNewCharacter ==
    [stats |-> [STR |-> 10, CON |-> 10, POW |-> 10, DEX |-> 10,
                APP |-> 10, SIZ |-> 10, INT |-> 10, EDU |-> 10],
     hp |-> [current |-> 10, max |-> 10],
     mp |-> [current |-> 10, max |-> 10],
     san |-> [current |-> 50, max |-> 50],
     skills |-> NoSkills,
     customOccupationalSkills |-> <<>>,
     customSkills |-> <<>>]

getStatRollNotation(statName) ==
    IF statName \in {"SIZ", "INT"} THEN <<"2", "d", "6", "+", "6">>
    ELSE IF statName = "EDU" THEN <<"3", "d", "6", "+", "3">>
    ELSE <<"3", "d", "6">>

\* the attributes the operator sets and rolls one at a time in the model:
\* the ones skill bases and point budgets are derived from
EditedStats == {"DEX", "EDU", "INT"}

\* the values the operator enters for an attribute (StatInput keeps 1..99)
ManualEntries == {1, 50}

\* the points the operator types into an allocation input
AllocEntries == {0 - 5, 0, 80}

\* the results of parseAndRoll(notation) the model draws for an attribute: the
\* lowest and the highest for the edited attributes, the lowest for the others
StatRolls(statName) ==
    UNION {{v \in all : \/ \A w \in all : v <= w
                        \/ statName \in EditedStats /\ \A w \in all : v >= w} :
               all \in {parseAndRoll(getStatRollNotation(statName))}}

\* the state of GamePlayScreen and of the session
sessionVars == <<gameState, characters, isLoading, pendingAction, modalAction,
                 lastFailedSkillCheck, diceRollRequest, inFlight, turns>>

\* addNewCharacter: a new sheet with a zeroed allocation table
addNewCharacter ==
    /\ gameState = "CharacterCreation"
    /\ creation = NULL
    /\ creation' = [character |-> createNewCharacter,
                    allocations |-> [n \in Range(ALL_SKILLS) |-> NoPoints],
                    isCustomOccupation |-> FALSE,
                    crashed |-> FALSE,
                    edits |-> 0,
                    last |-> [op |-> "addNewCharacter"]]
    /\ UNCHANGED <<sessionVars, appVars, input, output>>

\* the sheet is shown and the operator may still edit it
Editing ==
    /\ gameState = "CharacterCreation"
    /\ creation # NULL
    /\ ~creation.crashed
    /\ creation.edits < MaxEdits

\* updateCharacter and setAllocations of one handler, committed together
Commit(character, allocations, last) ==
    creation' = [creation EXCEPT !.character = character,
                                 !.allocations = allocations,
                                 !.edits = @ + 1,
                                 !.last = last]

statUpdate_SanFollowsMax(char, allocations, statName, value) ==
    LET newStats == [char.stats EXCEPT ![statName] = value]
        newHP == hitPoints(newStats)
        newMP == newStats.POW
        newSAN == newStats.POW * 5
    IN  [char EXCEPT !.stats = newStats,
                     !.hp = [max |-> newHP, current |-> newHP],
                     !.mp = [max |-> newMP, current |-> newMP],
                     !.san = [max |-> newSAN, current |-> newSAN]]

\* the updater of handleStatUpdate
statUpdate(char, allocations, statName, value) ==
    LET newStats == [char.stats EXCEPT ![statName] = value]
        newHP == hitPoints(newStats)
        newMP == newStats.POW
        newSAN == newStats.POW * 5
        names == Range(allSkillNames(char.customSkills))
        newSkills ==
            IF statName \in {"DEX", "EDU"}
            THEN [n \in DOMAIN char.skills \cup names |->
                     IF n \in names
                     THEN skillTotal(getBaseSkillValue(n, newStats, char.customSkills),
                                     allocOf(allocations, n))
                     ELSE char.skills[n]]
            ELSE char.skills
    IN  [char EXCEPT !.stats = newStats,
                     !.hp = [max |-> newHP, current |-> newHP],
                     !.mp = [max |-> newMP, current |-> newMP],
                     !.san = [max |-> newSAN,
                              current |-> IF char.san.current > newSAN THEN newSAN
                                          ELSE char.san.current],
                     !.skills = newSkills]

handleStatUpdate ==
    /\ Editing
    /\ \E statName \in EditedStats, value \in ManualEntries :
           Commit(statUpdate(creation.character, creation.allocations, statName, value),
                  creation.allocations,
                  [op |-> "handleStatUpdate", statName |-> statName])
    /\ UNCHANGED <<sessionVars, appVars, input, output>>

handleStatRollRequest ==
    /\ Editing
    /\ \E statName \in EditedStats :
           \E result \in StatRolls(statName) :
               Commit(statUpdate(creation.character, creation.allocations, statName, result),
                      creation.allocations,
                      [op |-> "handleStatRollRequest", statName |-> statName])
    /\ UNCHANGED <<sessionVars, appVars, input, output>>

\* the updater of handleRollAllStats
rollAllUpdate(char, allocations, newStats) ==
    LET newHP == hitPoints(newStats)
        newMP == newStats.POW
        newSAN == newStats.POW * 5
        names == Range(allSkillNames(char.customSkills))
        newSkills ==
            [n \in DOMAIN char.skills \cup names |->
                IF n \in names
                THEN cap99(skillTotal(getBaseSkillValue(n, newStats, char.customSkills),
                                      allocOf(allocations, n)))
                ELSE char.skills[n]]
    IN  [char EXCEPT !.stats = newStats,
                     !.hp = [max |-> newHP, current |-> newHP],
                     !.mp = [max |-> newMP, current |-> newMP],
                     !.san = [max |-> newSAN,
                              current |-> IF char.san.current > newSAN THEN newSAN
                                          ELSE char.san.current],
                     !.skills = newSkills]

handleRollAllStats ==
    /\ Editing
    /\ \E str \in StatRolls("STR"), con \in StatRolls("CON"), pow \in StatRolls("POW"),
          dex \in StatRolls("DEX"), app \in StatRolls("APP"), siz \in StatRolls("SIZ"),
          int \in StatRolls("INT"), edu \in StatRolls("EDU") :
           Commit(rollAllUpdate(creation.character, creation.allocations,
                                [STR |-> str, CON |-> con, POW |-> pow, DEX |-> dex,
                                 APP |-> app, SIZ |-> siz, INT |-> int, EDU |-> edu]),
                  creation.allocations,
                  [op |-> "handleRollAllStats"])
    /\ UNCHANGED <<sessionVars, appVars, input, output>>

\* handleSkillAllocation(charId, skillName, type, value)
handleSkillAllocation(skillName, type, value) ==
    LET points == IF value < 0 THEN 0 ELSE value
        charAllocs == creation.allocations
        previous == IF skillName \in DOMAIN charAllocs THEN charAllocs[skillName]
                    ELSE NoSkills
        newAllocs == Put(charAllocs, skillName, Put(previous, type, points))
        char == creation.character
        base == getBaseSkillValue(skillName, char.stats, char.customSkills)
        newSkillValue == skillTotal(base, newAllocs[skillName])
    IN  Commit([char EXCEPT !.skills = Put(char.skills, skillName, newSkillValue)],
               newAllocs,
               [op |-> "handleSkillAllocation", skillName |-> skillName,
                type |-> type, value |-> value])

\* the operator types into the occupation or interest input of a skill row;
\* the occupation input is disabled unless the row is an occupational skill
AllocatePoints ==
    /\ Editing
    /\ \E skillName \in Range(allSkillNames(creation.character.customSkills)),
          type \in {"occ", "int"}, value \in AllocEntries :
           /\ type = "occ" =>
                  /\ creation.isCustomOccupation
                  /\ skillName \in Range(creation.character.customOccupationalSkills)
           /\ handleSkillAllocation(skillName, type, value)
    /\ UNCHANGED <<sessionVars, appVars, input, output>>

\* handleOccupationChange with the CUSTOM entry of the occupation list
handleOccupationChange ==
    /\ Editing
    /\ ~creation.isCustomOccupation
    /\ creation' = [creation EXCEPT !.isCustomOccupation = TRUE,
                                    !.last = [op |-> "handleOccupationChange"]]
    /\ UNCHANGED <<sessionVars, appVars, input, output>>

\* handleCustomOccSkillToggle: the checkbox of a skill row
handleCustomOccSkillToggle ==
    /\ Editing
    /\ creation.isCustomOccupation
    /\ \E skillName \in Range(allSkillNames(creation.character.customSkills)) :
           LET char == creation.character
               currentSkills == char.customOccupationalSkills
               newSkills ==
                   IF skillName \in Range(currentSkills)
                   THEN SelectSeq(currentSkills, LAMBDA n : n # skillName)
                   ELSE IF Len(currentSkills) >= 8 THEN currentSkills
                   ELSE Append(currentSkills, skillName)
           IN  Commit([char EXCEPT !.customOccupationalSkills = newSkills],
                      creation.allocations,
                      [op |-> "handleCustomOccSkillToggle", skillName |-> skillName])
    /\ UNCHANGED <<sessionVars, appVars, input, output>>

\* handleAddCustomSkill: CustomSkillModal saved without a skill being edited;
\* the id is made of the name and the time
handleAddCustomSkill ==
    /\ Editing
    /\ Len(creation.character.customSkills) < MaxCustomSkills
    /\ \E name \in CustomNames, baseValue \in CustomBases :
           LET char == creation.character
               newSkill == [id |-> <<name, creation.edits>>, name |-> name,
                            baseValue |-> baseValue]
           IN  Commit([char EXCEPT !.customSkills = Append(@, newSkill),
                                   !.skills = Put(@, name, baseValue)],
                      Put(creation.allocations, name, NoPoints),
                      [op |-> "handleAddCustomSkill", skillName |-> name])
    /\ UNCHANGED <<sessionVars, appVars, input, output>>

\* handleEditCustomSkill: CustomSkillModal saved for the skill being edited,
\* with the name and the base value of its form
handleEditCustomSkill ==
    /\ Editing
    /\ \E i \in 1..Len(creation.character.customSkills) :
       \E name \in CustomNames, baseValue \in CustomBases :
           LET char == creation.character
               skillData == [char.customSkills[i] EXCEPT !.name = name,
                                                         !.baseValue = baseValue]
               customSkills == [k \in 1..Len(char.customSkills) |->
                                   IF char.customSkills[k].id = skillData.id
                                   THEN skillData ELSE char.customSkills[k]]
               allocation == allocOf(creation.allocations, skillData.name)
           IN  Commit([char EXCEPT !.customSkills = customSkills,
                                   !.skills = Put(@, skillData.name,
                                                  skillTotal(skillData.baseValue, allocation))],
                      creation.allocations,
                      [op |-> "handleEditCustomSkill", skillName |-> name])
    /\ UNCHANGED <<sessionVars, appVars, input, output>>

handleDeleteCustomSkill_KeepsSelection ==
    /\ Editing
    /\ \E i \in 1..Len(creation.character.customSkills) :
           LET char == creation.character
               skillToDelete == char.customSkills[i]
           IN  Commit([char EXCEPT
                          !.customSkills = SelectSeq(@, LAMBDA cs : cs.id # skillToDelete.id),
                          !.skills = Drop(@, skillToDelete.name)],
                      Drop(creation.allocations, skillToDelete.name),
                      [op |-> "handleDeleteCustomSkill", skillName |-> skillToDelete.name])
    /\ UNCHANGED <<sessionVars, appVars, input, output>>

\* handleDeleteCustomSkill: the delete button of a custom skill's row
handleDeleteCustomSkill ==
    /\ Editing
    /\ \E i \in 1..Len(creation.character.customSkills) :
           LET char == creation.character
               skillToDelete == char.customSkills[i]
           IN  Commit([char EXCEPT
                          !.customSkills = SelectSeq(@, LAMBDA cs : cs.id # skillToDelete.id),
                          !.skills = Drop(@, skillToDelete.name),
                          !.customOccupationalSkills =
                              SelectSeq(@, LAMBDA n : n # skillToDelete.name)],
                      Drop(creation.allocations, skillToDelete.name),
                      [op |-> "handleDeleteCustomSkill", skillName |-> skillToDelete.name])
    /\ UNCHANGED <<sessionVars, appVars, input, output>>

handleResetAllPoints_KeepsTotals ==
    /\ Editing
    /\ Commit(creation.character,
              [n \in Range(allSkillNames(creation.character.customSkills)) |-> NoPoints],
              [op |-> "handleResetAllPoints"])
    /\ UNCHANGED <<sessionVars, appVars, input, output>>

\* handleResetAllPoints: the reset button of the skill table
handleResetAllPoints ==
    /\ Editing
    /\ LET char == creation.character
           names == Range(allSkillNames(char.customSkills))
       IN  Commit([char EXCEPT !.skills =
                      [n \in DOMAIN char.skills \cup names |->
                          IF n \in names
                          THEN getBaseSkillValue(n, char.stats, char.customSkills)
                          ELSE char.skills[n]]],
                  [n \in names |-> NoPoints],
                  [op |-> "handleResetAllPoints"])
    /\ UNCHANGED <<sessionVars, appVars, input, output>>

RECURSIVE distribute_IgnoresBudget(_, _, _, _, _)
distribute_IgnoresBudget(order, points, allocs, type, char) ==
    IF order = <<>> THEN [allocs |-> allocs, threw |-> FALSE]
    ELSE LET randomSkill == Head(order)
         IN  IF randomSkill \notin DOMAIN allocs
             THEN [allocs |-> allocs, threw |-> TRUE]
             ELSE LET base == getBaseSkillValue(randomSkill, char.stats, char.customSkills)
                      currentAlloc == allocs[randomSkill]
                      currentTotal == base + currentAlloc.occ + currentAlloc.int
                      given == IF currentTotal < 99 THEN 99 - currentTotal ELSE 0
                  IN  distribute_IgnoresBudget(Tail(order), points - given,
                                               Put(allocs, randomSkill,
                                                   [currentAlloc EXCEPT ![type] = @ + given]),
                                               type, char)

\* one allocation loop of handleAutoAllocateAllPoints, for the random draws
\* that always pick the first skill still available in the given order: a
\* skill below 99 takes a point, a skill at 99 or above leaves the pool; an
\* occupational skill without an allocation row makes the updater throw
RECURSIVE distribute(_, _, _, _, _)
distribute(order, points, allocs, type, char) ==
    IF order = <<>> \/ points <= 0 THEN [allocs |-> allocs, threw |-> FALSE]
    ELSE LET randomSkill == Head(order)
         IN  IF randomSkill \notin DOMAIN allocs
             THEN [allocs |-> allocs, threw |-> TRUE]
             ELSE LET base == getBaseSkillValue(randomSkill, char.stats, char.customSkills)
                      currentAlloc == allocs[randomSkill]
                      currentTotal == base + currentAlloc.occ + currentAlloc.int
                      given == IF currentTotal < 99 THEN Min(points, 99 - currentTotal)
                               ELSE 0
                  IN  distribute(Tail(order), points - given,
                                 Put(allocs, randomSkill,
                                     [currentAlloc EXCEPT ![type] = @ + given]),
                                 type, char)

handleAutoAllocateAllPoints ==
    /\ Editing
    /\ LET char == creation.character
           occupationalSkills == IF creation.isCustomOccupation
                                 THEN char.customOccupationalSkills ELSE <<>>
           names == allSkillNames(char.customSkills)
       IN  /\ occupationalSkills # <<>>
           /\ \E occOrder \in {occupationalSkills, Reverse(occupationalSkills)},
                 intOrder \in {names, Reverse(names)} :
                  LET zeroed == [n \in Range(names) |-> NoPoints]
                      occDone == distribute(occOrder, char.stats.EDU * 20, zeroed, "occ", char)
                      intDone == distribute(intOrder, char.stats.INT * 10, occDone.allocs,
                                            "int", char)
                      newAllocsForChar == intDone.allocs
                      newSkills ==
                          [n \in DOMAIN char.skills \cup Range(names) |->
                              IF n \in Range(names)
                              THEN cap99(skillTotal(
                                       getBaseSkillValue(n, char.stats, char.customSkills),
                                       newAllocsForChar[n]))
                              ELSE char.skills[n]]
                  IN  IF occDone.threw
                      THEN creation' = [creation EXCEPT
                                           !.crashed = TRUE,
                                           !.edits = @ + 1,
                                           !.last = [op |-> "handleAutoAllocateAllPoints"]]
                      ELSE Commit([char EXCEPT !.skills = newSkills], newAllocsForChar,
                                  [op |-> "handleAutoAllocateAllPoints"])
    /\ UNCHANGED <<sessionVars, appVars, input, output>>

NextCreation ==
    \/ addNewCharacter
    \/ handleStatUpdate
    \/ handleStatRollRequest
    \/ handleRollAllStats
    \/ AllocatePoints
    \/ handleOccupationChange
    \/ handleCustomOccSkillToggle
    \/ handleAddCustomSkill
    \/ handleEditCustomSkill
    \/ handleDeleteCustomSkill
    \/ handleResetAllPoints
    \/ handleAutoAllocateAllPoints

SpecCreation == InitStartup /\ [][NextCreation]_vars

\* C19: after any allocation call (occupation or interest points, negative
\* values included) the affected skill's total equals
\* clamp(base + occ + int, base, 99): never above 99, never below the base
C19_AllocationClamped ==
    (creation # NULL /\ creation.last.op = "handleSkillAllocation") =>
        LET skillName == creation.last.skillName
            char == creation.character
            base == getBaseSkillValue(skillName, char.stats, char.customSkills)
            alloc == creation.allocations[skillName]
        IN  /\ {"occ", "int"} \subseteq DOMAIN alloc
            /\ char.skills[skillName] = Max(base, Min(99, base + alloc.occ + alloc.int))
            /\ char.skills[skillName] <= 99
            /\ char.skills[skillName] >= base

\* C20: after every creation operation each stored skill total equals
\* min(99, base + occupation points + interest points), computed from the
\* current attributes and the current split of the allocation table
C20_TotalsInLockstep ==
    creation # NULL =>
        \A skillName \in DOMAIN creation.character.skills :
            LET char == creation.character
                base == getBaseSkillValue(skillName, char.stats, char.customSkills)
                alloc == allocOf(creation.allocations, skillName)
            IN  /\ {"occ", "int"} \subseteq DOMAIN alloc
                /\ char.skills[skillName] = Min(99, base + alloc.occ + alloc.int)

\* C21: after an auto-allocation no skill of the sheet has a total above 99,
\* the occupation points allocated do not exceed EDU x 20, the interest
\* points allocated do not exceed INT x 10, and occupation points lie only
\* on the occupational skills the allocation was run with
C21_AutoAllocateWithinLimits ==
    (creation # NULL /\ creation.last.op = "handleAutoAllocateAllPoints"
                     /\ ~creation.crashed) =>
        LET char == creation.character
            names == allSkillNames(char.customSkills)
            RECURSIVE spent(_, _)
            spent(skills, type) ==
                IF skills = {} THEN 0
                ELSE LET n == CHOOSE k \in skills : TRUE
                     IN  creation.allocations[n][type] + spent(skills \ {n}, type)
        IN  /\ DOMAIN creation.allocations = Range(names)
            /\ \A n \in Range(names) : char.skills[n] <= 99
            /\ spent(Range(names), "occ") <= char.stats.EDU * 20
            /\ spent(Range(names), "int") <= char.stats.INT * 10
            /\ \A n \in Range(names) :
                   creation.allocations[n].occ > 0 =>
                       n \in Range(char.customOccupationalSkills)

\* an auto-allocation spent the whole occupation budget of EDU 1 (20 points)
\* and brought a skill to 99 with interest points
C21_Witness ==
    /\ creation # NULL
    /\ creation.last.op = "handleAutoAllocateAllPoints"
    /\ ~creation.crashed
    /\ creation.character.stats.EDU = 1
    /\ \E n \in DOMAIN creation.allocations : creation.allocations[n].occ = 20
    /\ \E n \in DOMAIN creation.character.skills :
           creation.character.skills[n] = 99 /\ creation.allocations[n].int > 0

\* C22: in every state of a creation session a skill holds occupation points
\* only if it is at that moment one of the character's occupational skills
\* (here: a member of the custom selection of a custom occupation)
C22_OccPointsOnlyOnOccupationalSkills ==
    creation # NULL =>
        \A n \in DOMAIN creation.allocations :
            ("occ" \in DOMAIN creation.allocations[n] /\ creation.allocations[n].occ > 0) =>
                /\ creation.isCustomOccupation
                /\ n \in Range(creation.character.customOccupationalSkills)

-----------------------------------------------------------------------------
(* Character import: parseIacharaText and handleCharacterImport             *)

\* the skill lines of an imported sheet, in file order: one standard skill
\* and the sheet's own skills
SheetSkillNames == <<"spot", "lore", "myth", "art", "craft", "pilot",
                     "science", "survival", "drive", "ride">>

\* the numbers of skill lines the imported sheets have
SheetSizes == {0, 7, 8, 9, 10}

\* the attribute values of the imported sheets
SheetStats == [STR |-> 13, CON |-> 13, POW |-> 13, DEX |-> 13,
               APP |-> 13, SIZ |-> 13, INT |-> 13, EDU |-> 13]

\* the imported sheets: an occupation that is a preset, free text or missing,
\* and skill lines with their initial value, occupation and interest points
IacharaSheets ==
    {[occupation |-> occupation,
      stats |-> SheetStats,
      currentSan |-> currentSan,
      skillLines |-> [i \in 1..size |->
                         [name |-> SheetSkillNames[i], initialValue |-> 30,
                          occP |-> occP, intP |-> intP]]] :
        occupation \in {"", "preset", "free text"},
        currentSan \in {40, 90},
        size \in SheetSizes, occP \in {0, 5}, intP \in {0, 70}}

\* parseIacharaText(text), for a sheet whose sections have been read
parseIacharaText(sheet) ==
    LET newChar == createNewCharacter
        lines == sheet.skillLines
        customLines == SelectSeq(lines, LAMBDA l : l.name \notin Range(ALL_SKILLS))
        customSkills == [i \in 1..Len(customLines) |->
                            [id |-> <<customLines[i].name, 0>>,
                             name |-> customLines[i].name,
                             baseValue |-> customLines[i].initialValue
                                           - customLines[i].occP - customLines[i].intP]]
        allNames == allSkillNames(customSkills)
        newAllocations ==
            [n \in Range(allNames) |->
                IF \E i \in 1..Len(lines) : lines[i].name = n
                THEN LET i == CHOOSE k \in 1..Len(lines) :
                                  /\ lines[k].name = n
                                  /\ \A j \in (k + 1)..Len(lines) : lines[j].name # n
                     IN  [occ |-> lines[i].occP, int |-> lines[i].intP]
                ELSE NoPoints]
        isPresetOccupation == sheet.occupation = "preset"
        customOccupationalSkills ==
            IF ~isPresetOccupation /\ sheet.occupation # ""
            THEN SelectSeq(allNames, LAMBDA n : newAllocations[n].occ > 0)
            ELSE newChar.customOccupationalSkills
        hp == hitPoints(sheet.stats)
        pow == sheet.stats.POW
        sanMax == pow * 5
    IN  [character |->
            [stats |-> sheet.stats,
             hp |-> [current |-> hp, max |-> hp],
             mp |-> [current |-> pow, max |-> pow],
             san |-> [current |-> Min(sheet.currentSan, sanMax), max |-> sanMax],
             skills |-> [n \in Range(allNames) |->
                            cap99(skillTotal(
                                getBaseSkillValue(n, sheet.stats, customSkills),
                                newAllocations[n]))],
             customOccupationalSkills |-> customOccupationalSkills,
             customSkills |-> customSkills],
         allocations |-> newAllocations]

\* handleCharacterImport: the imported sheet becomes the active character
handleCharacterImport ==
    /\ gameState = "CharacterCreation"
    /\ creation = NULL
    /\ \E sheet \in IacharaSheets :
           LET imported == parseIacharaText(sheet)
           IN  creation' = [character |-> imported.character,
                            allocations |-> imported.allocations,
                            isCustomOccupation |-> FALSE,
                            crashed |-> FALSE,
                            edits |-> 0,
                            last |-> [op |-> "handleCharacterImport"]]
    /\ UNCHANGED <<sessionVars, appVars, input, output>>

NextImport ==
    \/ handleCharacterImport
    \/ handleOccupationChange
    \/ handleCustomOccSkillToggle

SpecImport == InitStartup /\ [][NextImport]_vars

\* C23: the custom occupational skill selection of a character never holds
\* more than 8 skills, whichever operation produced it (toggle or import)
C23_SelectionAtMostEight ==
    creation # NULL => Len(creation.character.customOccupationalSkills) <= 8

-----------------------------------------------------------------------------
(* StatInput: the attribute inputs of the sheet                             *)

StatNames == {"STR", "CON", "POW", "DEX", "APP", "SIZ", "INT", "EDU"}

\* what the operator leaves in an attribute input when it loses focus, with
\* the kind of entry it is: nothing or no number, a number below 1, a number
\* above 99, a number of the range (a fraction is cut to its integer part)
DisplayEntries ==
    {[text |-> <<>>, entry |-> "none"],
     [text |-> <<"e">>, entry |-> "none"],
     [text |-> <<"-">>, entry |-> "none"],
     [text |-> <<"0">>, entry |-> "below"],
     [text |-> <<"-", "5">>, entry |-> "below"],
     [text |-> <<"1", "5", "0">>, entry |-> "above"],
     [text |-> <<"1", "3">>, entry |-> "inRange", number |-> 13],
     [text |-> <<"1", "2", ".", "7">>, entry |-> "inRange", number |-> 12]}

\* parseInt(text, 10): an optional sign and the digits that follow it
parseInt(text) ==
    LET t == TrimLeft(text)
        signed == t # <<>> /\ t[1] \in {"-", "+"}
        run == DigitRunFrom(IF signed THEN Tail(t) ELSE t, 1)
    IN  IF run = <<>> THEN [isNaN |-> TRUE]
        ELSE [isNaN |-> FALSE,
              value |-> IF t[1] = "-" THEN 0 - ParseDigits(run) ELSE ParseDigits(run)]

handleBlur_NoUpperLimit(displayValue) ==
    LET parsed == parseInt(displayValue)
    IN  IF parsed.isNaN \/ parsed.value < 1 THEN 1 ELSE parsed.value

\* StatInput.handleBlur: the value handed to onUpdate
handleBlur(displayValue) ==
    LET parsed == parseInt(displayValue)
        numericValue == IF parsed.isNaN \/ parsed.value < 1 THEN 1 ELSE parsed.value
    IN  IF numericValue > 99 THEN 99 ELSE numericValue

\* an attribute input loses focus: handleBlur, then handleStatUpdate
StatInputBlur ==
    /\ Editing
    /\ \E statName \in StatNames, display \in DisplayEntries :
           Commit(statUpdate(creation.character, creation.allocations, statName,
                             handleBlur(display.text)),
                  creation.allocations,
                  [op |-> "handleStatUpdate", statName |-> statName, display |-> display])
    /\ UNCHANGED <<sessionVars, appVars, input, output>>

NextAttributes ==
    \/ addNewCharacter
    \/ StatInputBlur
    \/ handleStatRollRequest
    \/ handleRollAllStats

SpecAttributes == InitStartup /\ [][NextAttributes]_vars

\* C24: after any sequence of manual entries, single rolls and roll-alls each
\* of the eight attributes is an integer of 1..99; an entry that is no
\* number or is below 1 is stored as 1, and an entry above 99 as 99
C24_AttributesWithinRange ==
    creation # NULL =>
        /\ \A statName \in StatNames : creation.character.stats[statName] \in 1..99
        /\ "display" \in DOMAIN creation.last =>
               LET stored == creation.character.stats[creation.last.statName]
                   entry == creation.last.display.entry
               IN  /\ entry \in {"none", "below"} => stored = 1
                   /\ entry = "above" => stored = 99

\* an entry above the range was stored as 99 after an entry that is no
\* number was stored as 1 and an attribute was rolled
C24_Witness ==
    /\ creation # NULL
    /\ "display" \in DOMAIN creation.last
    /\ creation.last.display.entry = "above"
    /\ creation.character.stats[creation.last.statName] = 99
    /\ \E statName \in StatNames : creation.character.stats[statName] = 1
    /\ creation.character.stats.EDU = 21

\* derivedData: the point budgets shown on the sheet
derivedData(char) ==
    [occupationPoints |-> char.stats.EDU * 20,
     interestPoints |-> char.stats.INT * 10]

\* C25: on a new sheet and after every attribute operation HP max is
\* (CON + SIZ) / 2 rounded up, MP max is POW, SAN max is POW x 5, the
\* occupation points are EDU x 20 and the interest points INT x 10; a new
\* character has all attributes 10 with HP 10, MP 10 and SAN max 50, and
\* setting all attributes to 13 gives 13, 13, 65, 260 and 130
C25_DerivedResources ==
    /\ creation # NULL =>
           LET char == creation.character
               stats == char.stats
           IN  /\ 2 * char.hp.max \in {stats.CON + stats.SIZ, stats.CON + stats.SIZ + 1}
               /\ char.mp.max = stats.POW
               /\ char.san.max = stats.POW * 5
               /\ derivedData(char).occupationPoints = stats.EDU * 20
               /\ derivedData(char).interestPoints = stats.INT * 10
               /\ creation.last.op = "addNewCharacter" =>
                      /\ \A statName \in StatNames : stats[statName] = 10
                      /\ char.hp.max = 10 /\ char.mp.max = 10 /\ char.san.max = 50
    /\ LET RECURSIVE setAll(_, _)
           setAll(char, statNames) ==
               IF statNames = <<>> THEN char
               ELSE setAll(statUpdate(char, [n \in Range(ALL_SKILLS) |-> NoPoints],
                                      Head(statNames), handleBlur(<<"1", "3">>)),
                           Tail(statNames))
           char13 == setAll(createNewCharacter,
                            <<"STR", "CON", "SIZ", "POW", "DEX", "APP", "INT", "EDU">>)
       IN  /\ char13.hp.max = 13 /\ char13.mp.max = 13 /\ char13.san.max = 65
           /\ derivedData(char13).occupationPoints = 260
           /\ derivedData(char13).interestPoints = 130

\* attribute operations left CON + SIZ odd, so that HP max is rounded up, and
\* POW, EDU and INT away from their initial 10
C25_Witness ==
    /\ creation # NULL
    /\ creation.last.op \in {"handleStatUpdate", "handleStatRollRequest", "handleRollAllStats"}
    /\ (creation.character.stats.CON + creation.character.stats.SIZ) % 2 = 1
    /\ creation.character.hp.max * 2 = creation.character.stats.CON
                                       + creation.character.stats.SIZ + 1
    /\ creation.character.stats.POW # 10
    /\ creation.character.mp.max = creation.character.stats.POW
    /\ derivedData(creation.character).occupationPoints # 200
    /\ derivedData(creation.character).interestPoints # 100

\* C26: an attribute change never raises current SAN: after it current SAN
\* is the smaller of the previous current SAN and the new SAN max
C26_SanNeverRaised ==
    [][(creation # NULL /\ creation' # NULL /\ creation' # creation) =>
           LET previous == creation.character.san.current
               newMax == creation'.character.stats.POW * 5
           IN  /\ creation'.character.san.current =
                      (IF previous < newMax THEN previous ELSE newMax)
               /\ creation'.character.san.current <= previous]_vars

\* POW was lowered to 1 (SAN 5 of 5) and raised back to 13: current SAN
\* stays at 5 under a SAN max of 65
C26_Witness ==
    /\ creation # NULL
    /\ creation.last.op = "handleStatUpdate"
    /\ creation.last.statName = "POW"
    /\ creation.character.stats.POW = 13
    /\ creation.character.san = [current |-> 5, max |-> 65]

C28_ResetToBaseIdempotent ==
    [][(creation # NULL /\ creation' # NULL /\ creation' # creation
        /\ creation'.last.op = "handleResetAllPoints") =>
           LET after == creation'.character
               names == Range(allSkillNames(after.customSkills))
           IN  /\ DOMAIN creation'.allocations = names
               /\ \A n \in names :
                      /\ creation'.allocations[n].occ = 0
                      /\ creation'.allocations[n].int = 0
                      /\ n \in DOMAIN after.skills
                      /\ after.skills[n] = getBaseSkillValue(n, after.stats, after.customSkills)
               /\ creation.last.op = "handleResetAllPoints" =>
                      /\ after.skills = creation.character.skills
                      /\ creation'.allocations = creation.allocations]_vars

\* a reset acted on a sheet that holds a custom skill of base 60, after two
\* other operations: the custom skill stands at 60 with a zeroed allocation
C28_Witness ==
    /\ creation # NULL
    /\ creation.last.op = "handleResetAllPoints"
    /\ creation.edits = 3
    /\ \E i \in 1..Len(creation.character.customSkills) :
           LET cs == creation.character.customSkills[i]
           IN  /\ cs.baseValue = 60
               /\ creation.character.skills[cs.name] = 60
               /\ creation.allocations[cs.name] = NoPoints

\* C29: a notation evaluates as the grammar states wherever it is consumed;
\* for a dice roll the narrator requests: a bare integer gives that integer,
\* NdS with an optional signed modifier M gives an integer of N+M..N*S+M,
\* and any other notation gives 0
C29_NotationEvaluatesAsGrammar ==
    [][(/\ diceRollRequest # NULL
        /\ diceRollRequest.kind = "generic"
        /\ Len(inFlight') = Len(inFlight) + 1) =>
           LET notation == diceRollRequest.notation
               result == inFlight'[Len(inFlight')].detail.result
               m == DiceMatch(notation)
           IN  IF isFixedValue(notation) THEN result = ParseDigits(Trim(notation))
               ELSE IF m # NULL
               THEN result \in (m.numDice + m.modifier)..(m.numDice * m.numSides + m.modifier)
               ELSE result = 0]_vars

-----------------------------------------------------------------------------
(* calculateDamageBonus                                                     *)

calculateDamageBonus_StrictBands(str, siz) ==
    LET sum == str + siz
    IN  IF sum < 12 THEN "-1D6"
        ELSE IF sum < 16 THEN "-1D4"
        ELSE IF sum < 24 THEN "+0"
        ELSE IF sum < 32 THEN "+1D4"
        ELSE IF sum < 40 THEN "+1D6"
        ELSE IF sum < 56 THEN "+2D6"
        ELSE IF sum < 72 THEN "+3D6"
        ELSE "+4D6"

calculateDamageBonus(str, siz) ==
    LET sum == str + siz
    IN  IF sum <= 12 THEN "-1D6"
        ELSE IF sum <= 16 THEN "-1D4"
        ELSE IF sum <= 24 THEN "+0"
        ELSE IF sum <= 32 THEN "+1D4"
        ELSE IF sum <= 40 THEN "+1D6"
        ELSE IF sum <= 56 THEN "+2D6"
        ELSE IF sum <= 72 THEN "+3D6"
        ELSE "+4D6"

\* a sheet's STR and SIZ: any two values the attribute inputs keep
InitDamageBonus ==
    /\ NoSession
    /\ creation = NULL
    /\ \E str \in 1..99, siz \in 1..99 : input = [STR |-> str, SIZ |-> siz]
    /\ output = NULL

\* derivedData.damageBonus of the sheet
ComputeDamageBonus ==
    /\ input # NULL /\ output = NULL
    /\ output' = [damageBonus |-> calculateDamageBonus(input.STR, input.SIZ)]
    /\ UNCHANGED <<sessionVars, appVars, creation, input>>

SpecDamageBonus == InitDamageBonus /\ [][ComputeDamageBonus]_vars

\* C30: the damage bonus is the band of STR + SIZ (up to 12 "-1D6", up to 16
\* "-1D4", up to 24 "+0", up to 32 "+1D4", up to 40 "+1D6", up to 56 "+2D6",
\* up to 72 "+3D6", above "+4D6") for every STR and SIZ of 1..99, and STR 13
\* with SIZ 13 (sum 26) gives "+0"
C30_DamageBonusBandsExample26IsZero ==
    output # NULL =>
        LET sum == input.STR + input.SIZ
            upTo == <<12, 16, 24, 32, 40, 56, 72>>
            bands == <<"-1D6", "-1D4", "+0", "+1D4", "+1D6", "+2D6", "+3D6", "+4D6">>
            band == 1 + Cardinality({i \in 1..Len(upTo) : sum > upTo[i]})
        IN  /\ output.damageBonus = bands[band]
            /\ (input.STR = 13 /\ input.SIZ = 13) => output.damageBonus = "+0"

\* C30 (amended): the same bands, and STR 13 with SIZ 13 (sum 26) gives
\* "+1D4", STR 20 with SIZ 20 (sum 40) gives "+1D6"
C30_DamageBonusBands ==
    output # NULL =>
        LET sum == input.STR + input.SIZ
            upTo == <<12, 16, 24, 32, 40, 56, 72>>
            bands == <<"-1D6", "-1D4", "+0", "+1D4", "+1D6", "+2D6", "+3D6", "+4D6">>
            band == 1 + Cardinality({i \in 1..Len(upTo) : sum > upTo[i]})
        IN  /\ output.damageBonus = bands[band]
            /\ (input.STR = 13 /\ input.SIZ = 13) => output.damageBonus = "+1D4"
            /\ (input.STR = 20 /\ input.SIZ = 20) => output.damageBonus = "+1D6"

\* the damage bonus of STR 13 and SIZ 13 was computed
C30_Witness ==
    /\ input = [STR |-> 13, SIZ |-> 13]
    /\ output # NULL
    /\ output.damageBonus = "+1D4"

-----------------------------------------------------------------------------
(* Gameplay: the roster, the session's end, the requests to the narrator    *)

\* C31: during play no step adds or removes a character or changes anything
\* of a character but its sanity and its madness (attributes, skills, HP and
\* MP stay as they were)
C31_PlayTouchesOnlySanityAndMadness ==
    [][gameState = "Playing" =>
           /\ DOMAIN characters' = DOMAIN characters
           /\ \A id \in DOMAIN characters :
                  LET kept(c) == [f \in DOMAIN c \ {"san", "madness"} |-> c[f]]
                  IN  /\ kept(characters'[id]) = kept(characters[id])
                      /\ {"san", "madness"} \subseteq DOMAIN characters'[id]
                      /\ characters'[id].san.max = characters[id].san.max]_vars

\* a sanity loss and a madness were stored on character "a", whose attributes
\* and skills are those of the start of the session
C31_Witness ==
    /\ gameState = "Playing"
    /\ DOMAIN characters = CharacterIds
    /\ characters["a"].san.current < 30
    /\ characters["a"].madness.type # "null"
    /\ characters["a"].stats.POW = 6
    /\ characters["a"].skills[Spot] = 40
    /\ characters["a"].hp = [current |-> 10, max |-> 10]

\* App.handleRestart: the restart button of GameClearScreen and GameOverScreen.
\* The requests the unmounted GamePlayScreen still awaits stay in flight.
handleRestart ==
    /\ gameState \in {"GameClear", "GameOver"}
    /\ scenario # NULL
    /\ characters' = <<>>
    /\ scenario' = NULL
    /\ rewards' = NULL
    /\ gameState' = "CharacterCreation"
    /\ inFlight' = [i \in 1..Len(inFlight) |->
                       [kind |-> "orphaned", characters |-> inFlight[i].characters]]
    /\ UNCHANGED <<isLoading, pendingAction, modalAction, lastFailedSkillCheck,
                   diceRollRequest, turns, isScenarioOptionsModalOpen, outlineRequest,
                   creation, input, output>>

\* the awaited outline settles (handleGenerateScenario's try branch: the
\* promise never rejects) and the GamePlayScreen App then renders mounts: its
\* state is new and startGame sends the opening request
StartSession ==
    /\ outlineRequest # NULL
    /\ \E outcome \in OutlineOutcomes : scenario' = generateScenarioOutline(outcome)
    /\ gameState' = "Playing"
    /\ outlineRequest' = NULL
    /\ isLoading' = TRUE
    /\ pendingAction' = NULL
    /\ modalAction' = NULL
    /\ lastFailedSkillCheck' = NULL
    /\ diceRollRequest' = NULL
    /\ inFlight' = Append(inFlight, Request("start", characters, NULL, NULL))
    /\ UNCHANGED <<characters, turns, isScenarioOptionsModalOpen, rewards,
                   creation, input, output>>

\* sessions one after the other: play with checks, restart, creation, start
NextSessions ==
    \/ KeeperRespondChecks
    \/ PlayerActions
    \/ CheckActions
    \/ handleRestart
    \/ handleCharacterCreationSubmit
    \/ CloseScenarioOptionsModal
    \/ handleGenerateScenario
    \/ StartSession

SpecSessions == Init /\ [][NextSessions]_vars

\* C32: a restart from a terminal screen returns to character creation with
\* an empty roster, no scenario and no rewards, and nothing of the finished
\* session shows in the next one: the rewards of a Game Clear screen are
\* those granted to the roster of the session that was cleared
C32_RestartBeginsFreshSession ==
    /\ [][(gameState \in {"GameClear", "GameOver"} /\ gameState' = "CharacterCreation") =>
              /\ characters' = <<>>
              /\ scenario' = NULL
              /\ rewards' = NULL]_vars
    /\ [](((gameState = "GameClear" /\ scenario # NULL /\ rewards # NULL)) =>
              rewards.roster = DOMAIN characters)

-----------------------------------------------------------------------------
(* The sheet the creation screen hands over, as the play screen reads it *)

\* handleSkillCheck: character.skills[cleanedSkill] ?? 0, for a skill name
\* that carries no brackets
skillCheckTarget(character, skillName) ==
    IF skillName \in DOMAIN character.skills THEN character.skills[skillName] ELSE 0

\* the rows of the skill list: the standard skills and the custom skills
sheetSkillNames(char) ==
    Range(ALL_SKILLS) \cup {char.customSkills[i].name : i \in 1..Len(char.customSkills)}

\* C33: the target value a skill check uses for a character equals
\* min(99, base + occupation points + interest points) of that skill, also for
\* a new character whose skills and attributes were never edited (the target
\* is then the skill's base value, not 0)
C33_SkillCheckTargetIsTotal ==
    creation # NULL =>
        \A skillName \in sheetSkillNames(creation.character) :
            LET char == creation.character
                base == getBaseSkillValue(skillName, char.stats, char.customSkills)
                alloc == allocOf(creation.allocations, skillName)
            IN  /\ {"occ", "int"} \subseteq DOMAIN alloc
                /\ skillCheckTarget(char, skillName) = Min(99, base + alloc.occ + alloc.int)

-----------------------------------------------------------------------------
(* The push-roll offer *)

\* C34: the outcome of a failed skill or stat check leaves the push-roll offer
\* only towards the narrator: as the request of a decline, which carries the
\* recorded outcome unchanged, or as the push roll of the same check at the
\* same target; no other action (such as a free-text submission) discards it
C34_FailedCheckAlwaysReported ==
    [][(lastFailedSkillCheck # NULL /\ lastFailedSkillCheck' = NULL) =>
          \/ /\ Len(inFlight') = Len(inFlight) + 1
             /\ inFlight'[Len(inFlight')].kind = "declined"
             /\ inFlight'[Len(inFlight')].rollResult =
                    RollResult(lastFailedSkillCheck.characterId, lastFailedSkillCheck.skill,
                               lastFailedSkillCheck.value, lastFailedSkillCheck.result,
                               lastFailedSkillCheck.dice)
          \/ /\ diceRollRequest' # NULL
             /\ diceRollRequest'.kind = "push"
             /\ diceRollRequest'.characterId = lastFailedSkillCheck.characterId
             /\ diceRollRequest'.skill = lastFailedSkillCheck.skill
             /\ diceRollRequest'.value = lastFailedSkillCheck.value]_vars

-----------------------------------------------------------------------------
(* The party state a request carries *)

\* sendPlayerAction's characterStatus: HP and SAN of every character, and the
\* kind of madness with its remaining rounds when there are any
characterStatus(party) ==
    [id \in DOMAIN party |->
        LET c == party[id]
        IN  [hp |-> c.hp,
             san |-> c.san,
             madness |-> IF c.madness.type # "null"
                         THEN [type |-> c.madness.type,
                               rounds |-> IF "duration" \in DOMAIN c.madness
                                             /\ c.madness.duration > 0
                                          THEN c.madness.duration ELSE 0]
                         ELSE NULL]]

\* C35: the party state written into a request to the narrator is the
\* character state at the moment the request is sent: after a sanity check it
\* shows the SAN after the loss and the madness just set, and after an action
\* that decremented a madness it shows the decremented rounds or the recovery
C35_RequestCarriesCurrentParty ==
    [][Len(inFlight') = Len(inFlight) + 1 =>
          characterStatus(inFlight'[Len(inFlight')].characters) =
              characterStatus(characters')]_vars

-----------------------------------------------------------------------------
(* Narrator calls that fail *)

\* chat.sendMessage rejects: the await in handlePlayerAction / handleSystemAction
\* throws, no handler catches it and processKeeperResponse never runs
sendMessageRejects ==
    /\ \E i \in 1..Len(inFlight) : inFlight' = RemoveAt(inFlight, i)
    /\ UNCHANGED <<gameState, characters, isLoading, pendingAction, modalAction,
                   lastFailedSkillCheck, diceRollRequest, turns>>
    /\ UNCHANGED <<appVars, creation, input, output>>

NextFailures ==
    \/ Next
    \/ sendMessageRejects

\* every narrator call settles: it returns a reply or it is rejected
SpecFailures ==
    Init /\ [][NextFailures]_vars /\ WF_vars(KeeperRespond \/ sendMessageRejects)

\* the session without rejected calls, every call being answered
SpecAnswered == Init /\ [][Next]_vars /\ WF_vars(KeeperRespond)

\* the operator can act (the form, the offered buttons or an open dice
\* dialog), or the session has ended
acceptsInput == ~isLoading \/ diceRollRequest # NULL \/ gameState # "Playing"

\* C36: the orchestrator never stays blocked on the narrator: whenever it
\* awaits a reply it later accepts operator input or is in a terminal state,
\* whether the call returns a well-formed reply, a malformed one, or is rejected
C36_NeverStuckAwaiting == isLoading ~> acceptsInput

-----------------------------------------------------------------------------
(* The end of a session *)

\* C37: Game Over and Game Clear are absorbing: once the session has ended (by
\* the narrator's declaration or by a character reaching 0 SAN) it stays in
\* that state until the restart, which leads to character creation; no reply
\* processed afterwards turns it into the other terminal state or into play
C37_TerminalStatesAbsorbing ==
    [][(gameState \in {"GameClear", "GameOver"}) =>
          (\/ gameState' = gameState
           \/ (gameState' = "CharacterCreation" /\ characters' = <<>>
                    /\ scenario' = NULL /\ rewards' = NULL))]_vars

-----------------------------------------------------------------------------
(* Madness over a session *)

\* C38: in every state of play a character in temporary madness has between
\* 1 and 6 rounds remaining; a temporary madness with 0 rounds, a negative
\* number of rounds or no duration at all is never stored
C38_TemporaryMadnessHasRounds ==
    \A id \in DOMAIN characters :
        LET m == characters[id].madness
        IN  m.type = "temporary" =>
                /\ "duration" \in DOMAIN m
                /\ m.duration >= 1
                /\ m.duration <= 6

\* "a" has one round of temporary madness left after the decrement of a
\* free-text action that was taken with two rounds left
C38_Witness ==
    /\ characters["a"].madness = [type |-> "temporary", duration |-> 1]
    /\ \E i \in 1..Len(inFlight) :
           /\ inFlight[i].kind = "action"
           /\ inFlight[i].characters["a"].madness = [type |-> "temporary", duration |-> 2]

\* C39: a character in indefinite madness stays in indefinite madness until a
\* reply of the narrator recovers it (madnessRecovery of type "indefinite" or
\* "both"); neither the decrements of the actions taken nor a later sanity
\* loss makes the character Sane or changes the madness to a temporary one
C39_IndefiniteUntilRecovery ==
    [][\A id \in DOMAIN characters :
          (characters[id].madness.type = "indefinite" /\ id \in DOMAIN characters') =>
              \/ characters'[id].madness.type = "indefinite"
              \/ /\ characters'[id].madness.type = "null"
                 /\ Len(inFlight') = Len(inFlight) - 1]_vars

-----------------------------------------------------------------------------
(* The end of an auto-allocation *)

\* a sheet in the middle of its creation: a custom occupation whose only
\* occupational skill is the custom skill "lore" (base 1), nothing allocated
SheetWithSelectedCustomSkill ==
    [character |-> [createNewCharacter EXCEPT
                       !.customSkills = <<[id |-> <<"lore", 0>>, name |-> "lore",
                                           baseValue |-> 1]>>,
                       !.skills = Put(@, "lore", 1),
                       !.customOccupationalSkills = <<"lore">>],
     allocations |-> [n \in Range(ALL_SKILLS) \cup {"lore"} |-> NoPoints],
     isCustomOccupation |-> TRUE,
     crashed |-> FALSE,
     edits |-> 0,
     last |-> [op |-> "handleCustomOccSkillToggle", skillName |-> "lore"]]

\* the creation screen before its first sheet, or with that sheet
InitSheets ==
    /\ NoSession
    /\ creation \in {NULL, SheetWithSelectedCustomSkill}
    /\ input = NULL
    /\ output = NULL

SpecSheets == InitSheets /\ [][NextCreation]_vars

\* C40: handleAutoAllocateAllPoints always ends, and when it has ended the
\* occupation phase has either allocated the whole occupation budget
\* (EDU x 20) or brought every occupational skill to 99, and the interest
\* phase has either allocated the whole interest budget (INT x 10) or brought
\* every skill to 99; the allocation table holds nothing of what was allocated
\* before the call
C40_AutoAllocateSpendsOrSaturates ==
    (creation # NULL /\ creation.last.op = "handleAutoAllocateAllPoints") =>
        LET char == creation.character
            names == Range(allSkillNames(char.customSkills))
            base(n) == getBaseSkillValue(n, char.stats, char.customSkills)
            RECURSIVE spent(_, _)
            spent(skills, type) ==
                IF skills = {} THEN 0
                ELSE LET n == CHOOSE k \in skills : TRUE
                     IN  creation.allocations[n][type] + spent(skills \ {n}, type)
        IN  /\ ~creation.crashed
            /\ DOMAIN creation.allocations = names
            /\ \A n \in names : {"occ", "int"} \subseteq DOMAIN creation.allocations[n]
            /\ \/ spent(names, "occ") = char.stats.EDU * 20
               \/ \A n \in Range(char.customOccupationalSkills) :
                      n \in names /\ base(n) + creation.allocations[n].occ >= 99
            /\ \/ spent(names, "int") = char.stats.INT * 10
               \/ \A n \in names :
                      base(n) + creation.allocations[n].occ + creation.allocations[n].int >= 99
====
